---- MODULE Spec2Model ----
(***************************************************************************)
(* Verification model of the FreePBX provisioning helper.                  *)
(*                                                                         *)
(* The module holds one state machine per component of the orchestration   *)
(* layer, each with its own specification over the shared variables:       *)
(*   SpecNF    utils/common.py   next_free (NumberAllocator)               *)
(*   SpecTok   core/freepbx.py   ensure_token (AuthenticatedTransport)     *)
(*   SpecMut   core/freepbx.py   delete_extension, set_ext_password,       *)
(*                               create_inbound_route (variant probing)    *)
(*   SpecGoip  core/goip.py      set_incoming_enabled (DeviceSlotSync)     *)
(*   SpecBatch handlers/*.py     create, add, del, add_inbound,            *)
(*                               del_inbound, del_all, set_secret          *)
(* A component that a specification does not exercise stays in its Idle    *)
(* value.                                                                  *)
(***************************************************************************)
EXTENDS Integers, Sequences, FiniteSets, TLC

VARIABLES
  nf,      \* next_free: the locals of one call
  tok,     \* FreePBX.token / token_exp, the clock and the last ensure_token call
  mut,     \* one schema-adaptive operation: the loop over its variants
  dev,     \* the GOIP device: the 32 slots' fields and the device-wide fields
  goip,    \* one set_incoming_enabled call: its position and locals
  pbx,     \* the PBX backend: extensions, inbound routes, reload requests
  batch,   \* one batch command: its position, targets and result lists
  sess,    \* SESS[chat_id]: the cached token and expiry, and the last command
  pt,      \* parse_targets / _parse_range: the input tokens and the results
  ssh      \* one call of a core/asterisk.py function, or the route tables

vars ==
  <<nf, tok, mut, dev, goip, pbx, batch, sess, pt, ssh>>

(***************************************************************************)
(* Decimal strings.  Python's str(n) and int(s) are modelled on sequences  *)
(* of digits, so that "0402" and "402" are different strings of the same   *)
(* number.                                                                 *)
(***************************************************************************)
RECURSIVE ToStr(_)
ToStr(n) ==
  IF n < 10 THEN <<n>> ELSE Append(ToStr(n \div 10), n % 10)

RECURSIVE ToInt(_)
ToInt(s) ==
  IF Len(s) = 0 THEN 0
  ELSE 10 * ToInt(SubSeq(s, 1, Len(s) - 1)) + s[Len(s)]

Range(s) ==
  {s[i] : i \in 1..Len(s)}

(***************************************************************************)
(* NumberAllocator: next_free(existing, start, count)                      *)
(***************************************************************************)
\* Bounds of the next_free inputs: existing numbers lie in
\* NFLow..NFLow+NFSpan, start in NFLow..NFLow+NFStartSpan, count in 0..NFMaxCount.
NFLow ==
  401
NFSpan ==
  4
NFStartSpan ==
  2
NFMaxCount ==
  10

\* A slip of the conversion: set(existing) keeps the strings, and no integer
\* cursor is ever equal to a string.
NFTakenNoConv(existing) ==
  {}

\* taken = set(map(int, existing))
NFTaken(existing) ==
  {ToInt(e) : e \in existing}

\* while len(res) < count: if cur not in taken: res.append(str(cur)); cur += 1
RECURSIVE NextFreeLoop(_, _, _, _)
NextFreeLoop(taken, cur, count, res) ==
  IF Len(res) < count
  THEN NextFreeLoop(taken, cur + 1, count,
                    IF cur \notin taken THEN Append(res, ToStr(cur)) ELSE res)
  ELSE res

next_free(existing, start, count) ==
  NextFreeLoop(NFTaken(existing), start, count, <<>>)

\* equip_start with the base itself as the first number.
EquipStartAtBase(eq) ==
  eq * 100

equip_start(eq) ==
  eq * 100 + 1

NFIdle ==
  [pc |-> "idle"]

\* The call returns.
next_free_return ==
  /\ nf.pc = "called"
  /\ nf' = [nf EXCEPT !.pc = "done",
                      !.res = next_free(nf.existing, nf.start, nf.count)]
  /\ UNCHANGED <<ssh, sess, pt, tok, mut, dev, goip, pbx, batch>>

(***************************************************************************)
(* AuthenticatedTransport: FreePBX.ensure_token                            *)
(***************************************************************************)
\* The safety margin of the cached token, in seconds.
TokMargin ==
  30
\* j.get("expires_in", 3600)
TokDefaultExpiresIn ==
  3600
\* The clock runs over 0..TokMaxNow (whole seconds).
TokMaxNow ==
  12

None ==
  0

\* What the token endpoint can answer.  net: the POST raised (timeout, reset);
\* http: non-2xx; ok: 2xx with a JSON body that may lack either field (has_token,
\* exp_kind = "absent"), and whose expires_in may be a value int() rejects
\* (exp_kind = "null").
TokResponses ==
  LET
    \* The lifetimes the token endpoint grants: below, just above and above the margin.
    TokLifetimes ==
      {TokMargin - 10, TokMargin + 1, TokMargin + 5}
  IN
  {[kind |-> "net"], [kind |-> "http"]}
    \cup {[kind |-> "ok", has_token |-> h, exp_kind |-> "int", expires_in |-> e] :
            h \in BOOLEAN, e \in TokLifetimes}
    \cup {[kind |-> "ok", has_token |-> h, exp_kind |-> k, expires_in |-> 0] :
            h \in BOOLEAN, k \in {"absent", "null"}}

\* The bearer the endpoint issues: a value different from the cached one.
TokIssued(cached) ==
  IF cached = 1 THEN 2 ELSE 1

\* A slip of the guard: the margin is left out.
TokFreshNoMargin(token, token_exp, now) ==
  token # None /\ now < token_exp

\* if self.token and now < self.token_exp - 30: return
TokFresh(token, token_exp, now) ==
  token # None /\ now < token_exp - TokMargin

\* The effect of ensure_token on (token, token_exp) at time now under response r,
\* with the number of POSTs it made and how it ended.
EnsureTokenResult(token, token_exp, now, r) ==
  IF TokFresh(token, token_exp, now)
  THEN [token |-> token, exp |-> token_exp, calls |-> 0, outcome |-> "cached"]
  ELSE IF r.kind # "ok"
  THEN \* requests.post raised, or raise_for_status raised
       [token |-> token, exp |-> token_exp, calls |-> 1, outcome |-> "failed"]
  ELSE IF ~r.has_token
  THEN \* j["access_token"]: KeyError before any assignment
       [token |-> token, exp |-> token_exp, calls |-> 1, outcome |-> "failed"]
  ELSE IF r.exp_kind = "null"
  THEN \* self.token is assigned, then int(None) raises
       [token |-> TokIssued(token), exp |-> token_exp, calls |-> 1,
        outcome |-> "failed"]
  ELSE [token |-> TokIssued(token),
        exp |-> now + (IF r.exp_kind = "absent" THEN TokDefaultExpiresIn
                       ELSE r.expires_in),
        calls |-> 1, outcome |-> "refreshed"]

TokIdle ==
  LET
    TokNoCall ==
      [op |-> "none"]
  IN
  [token |-> None, exp |-> 0, now |-> 0, last |-> TokNoCall]

\* time.time() advances.
clock_tick ==
  /\ tok.now < TokMaxNow
  /\ tok' = [tok EXCEPT !.now = @ + 1]
  /\ UNCHANGED <<ssh, sess, pt, nf, mut, dev, goip, pbx, batch>>

\* One call of ensure_token, with the endpoint's answer r.
ensure_token ==
  \E r \in TokResponses :
    LET res == EnsureTokenResult(tok.token, tok.exp, tok.now, r) IN
    /\ tok' = [tok EXCEPT
                 !.token = res.token,
                 !.exp = res.exp,
                 !.last = [op |-> "ensure_token", token_before |-> tok.token,
                           exp_before |-> tok.exp, at |-> tok.now, resp |-> r,
                           calls |-> res.calls, outcome |-> res.outcome]]
    /\ UNCHANGED <<ssh, sess, pt, nf, mut, dev, goip, pbx, batch>>

\* A slip of the check: a body that holds data is returned, errors or not.
GqlResultDataFirst(g) ==
  CASE g.kind = "net" -> [kind |-> "raised", what |-> "transport", payload |-> <<>>]
    [] g.kind = "http" -> [kind |-> "raised", what |-> "http", payload |-> <<>>]
    [] g.has_data -> [kind |-> "returned", what |-> "data", payload |-> <<>>]
    [] g.has_errors ->
         [kind |-> "raised", what |-> "errors", payload |-> g.errors]
    [] OTHER -> [kind |-> "raised", what |-> "nodata", payload |-> <<>>]

\* r.raise_for_status(); if "errors" in js: raise RuntimeError(js["errors"]);
\* return js["data"]
GqlResult(g) ==
  CASE g.kind = "net" -> [kind |-> "raised", what |-> "transport", payload |-> <<>>]
    [] g.kind = "http" -> [kind |-> "raised", what |-> "http", payload |-> <<>>]
    [] g.has_errors ->
         [kind |-> "raised", what |-> "errors", payload |-> g.errors]
    [] ~g.has_data -> [kind |-> "raised", what |-> "nodata", payload |-> <<>>]
    [] OTHER -> [kind |-> "returned", what |-> "data", payload |-> <<>>]

\* One call of gql: ensure_token (its exception leaves gql before the POST),
\* then the POST with the endpoint's answer g.
gql ==
  LET
    GqlResponses ==
      LET
        \* What the GraphQL endpoint can answer.  net: the POST raised; http: non-2xx;
        \* ok: 2xx with a JSON body that may hold an `errors` key (its list may be empty)
        \* and may hold `data`.
        GqlErrorLists ==
          {<<>>, <<"e1">>, <<"e1", "e2">>}
      IN
      {[kind |-> "net"]}
        \cup {[kind |-> k, has_errors |-> FALSE, errors |-> <<>>, has_data |-> d] :
                k \in {"http", "ok"}, d \in BOOLEAN}
        \cup {[kind |-> k, has_errors |-> TRUE, errors |-> e, has_data |-> d] :
                k \in {"http", "ok"}, e \in GqlErrorLists, d \in BOOLEAN}
  IN
  \E r \in TokResponses, g \in GqlResponses :
    LET res == EnsureTokenResult(tok.token, tok.exp, tok.now, r)
        posted == res.outcome # "failed" IN
    /\ tok' = [tok EXCEPT
                 !.token = res.token,
                 !.exp = res.exp,
                 !.last = [op |-> "gql", token_before |-> tok.token,
                           exp_before |-> tok.exp, at |-> tok.now, resp |-> r,
                           calls |-> res.calls, outcome |-> res.outcome,
                           posted |-> posted, answer |-> g,
                           result |-> IF posted THEN GqlResult(g)
                                      ELSE [kind |-> "raised", what |-> "token",
                                            payload |-> <<>>]]]
    /\ UNCHANGED <<ssh, sess, pt, nf, mut, dev, goip, pbx, batch>>

(***************************************************************************)
(* SchemaAdaptiveMutator: delete_extension, set_ext_password and           *)
(* create_inbound_route each walk an ordered list of request shapes.       *)
(***************************************************************************)
\* At most MutMaxFaults attempts of one operation end in something other than a
\* rejection by the remote (a timeout, a reset, a failed token exchange).
MutMaxFaults ==
  2

\* delete_extension: variants = [(typ, field, mode), ...]
DeleteVariants ==
  << <<"ID", "id", "input">>,          <<"String", "id", "input">>,
     <<"ID", "extensionId", "input">>, <<"String", "extensionId", "input">>,
     <<"ID", "extension", "input">>,   <<"String", "extension", "input">>,
     <<"ID", "extId", "input">>,       <<"String", "extId", "input">>,
     <<"ID", "id", "direct">>,         <<"String", "id", "direct">>,
     <<"ID", "extensionId", "direct">>, <<"String", "extensionId", "direct">>,
     <<"ID", "extension", "direct">>,  <<"String", "extension", "direct">>,
     <<"ID", "extId", "direct">>,      <<"String", "extId", "direct">> >>

\* create_inbound_route: candidates = [from-did-direct,<ext>,1 ; ext-local,<ext>,1]
candidates ==
  << "from-did-direct", "ext-local" >>

MutVariants(op) ==
  LET
    \* set_ext_password: m_id, then m_str
    SetPwVariants ==
      << <<"ID", "extensionId", "input">>, <<"String", "extensionId", "input">> >>
  IN
  CASE op = "delete_extension" -> DeleteVariants
    [] op = "set_ext_password" -> SetPwVariants
    [] OTHER -> candidates

\* How one attempt can fail.  rejected: the body carries an errors array (field or
\* type not recognised, validation); nofield: the errors array says "Cannot query
\* field addInboundRoute"; transport: requests raised or the status is non-2xx;
\* auth: ensure_token raised inside the call.
MutFaultKinds ==
  {"transport", "auth"}

\* A slip of the loop: the `return` after the accepted call is missing, so the
\* loop goes on to the next variant and only ends with the list.
MutAfterAcceptNoReturn(m) ==
  IF m.i < Len(MutVariants(m.op))
  THEN [m EXCEPT !.i = @ + 1, !.tried = Append(@, m.i + 1),
                 !.accepted = IF @ = 0 THEN m.i ELSE @]
  ELSE [m EXCEPT !.pc = "Success", !.accepted = IF @ = 0 THEN m.i ELSE @]

\* self.gql(...) returned: `return`
MutAfterAccept(m) ==
  [m EXCEPT !.pc = "Success", !.accepted = m.i]

\* `except Exception as e: last_err = e; continue`, and the raise after the loop
MutAfterFail(m, kind) ==
  LET
    \* What the raised error carries of the attempts' failure reasons, given the
    \* reasons in attempt order.
    \*   delete_extension:     f"deleteExtension failed (all variants): {last_err}"
    \*   set_ext_password:     f"updateExtension failed: ID! -> {e1}; String! -> {e2}"
    \*   create_inbound_route: a fixed text when last_err says the mutation is missing,
    \*                         else f"create_inbound_route failed: {last_err}"
    MutRaised(op, reasons) ==
      LET last_err == reasons[Len(reasons)] IN
      CASE op = "delete_extension" -> <<last_err>>
        [] op = "set_ext_password" -> reasons
        [] OTHER -> IF last_err.kind = "nofield" THEN <<>> ELSE <<last_err>>
  IN
  LET reasons == Append(m.reasons, [variant |-> m.i, kind |-> kind])
      faults == m.faults + (IF kind \in MutFaultKinds THEN 1 ELSE 0) IN
  IF m.i < Len(MutVariants(m.op))
  THEN [m EXCEPT !.i = @ + 1, !.tried = Append(@, m.i + 1), !.reasons = reasons,
                 !.faults = faults]
  ELSE [m EXCEPT !.pc = "AllFailed", !.reasons = reasons, !.faults = faults,
                 !.raised = MutRaised(m.op, reasons)]

\* A slip of the loop: AlreadyExists is caught with the other exceptions.
MutAfterExistsAsFailure(m) ==
  MutAfterFail(m, "rejected")

\* `except AlreadyExists: raise`
MutAfterExists(m) ==
  [m EXCEPT !.pc = "AlreadyExists",
            !.raised = <<[variant |-> m.i, kind |-> "exists"]>>]

MutIdle ==
  [pc |-> "idle"]

\* The first variant's request goes out.
MutStart ==
  /\ mut.pc = "NotTried"
  /\ mut' = [mut EXCEPT !.pc = "Trying", !.i = 1, !.tried = <<1>>]
  /\ UNCHANGED <<ssh, sess, pt, nf, tok, dev, goip, pbx, batch>>

\* The remote accepts the variant in flight.
MutAccept ==
  /\ mut.pc = "Trying"
  /\ mut' = MutAfterAccept(mut)
  /\ UNCHANGED <<ssh, sess, pt, nf, tok, dev, goip, pbx, batch>>

\* The attempt in flight fails; the next variant's request goes out, or the
\* operation raises.
MutFail ==
  LET
    MutFailKinds(op) ==
      IF op = "create_inbound_route"
      THEN {"rejected", "nofield"} \cup MutFaultKinds
      ELSE {"rejected"} \cup MutFaultKinds
  IN
  /\ mut.pc = "Trying"
  /\ \E kind \in MutFailKinds(mut.op) :
       /\ kind \in MutFaultKinds => mut.faults < MutMaxFaults
       /\ mut' = MutAfterFail(mut, kind)
  /\ UNCHANGED <<ssh, sess, pt, nf, tok, dev, goip, pbx, batch>>

\* create_inbound_route only: the answer says the route exists;
\* `except AlreadyExists: raise`.
MutExists ==
  /\ mut.pc = "Trying"
  /\ mut.op = "create_inbound_route"
  /\ mut' = [MutAfterExists(mut) EXCEPT !.exists_at = mut.i]
  /\ UNCHANGED <<ssh, sess, pt, nf, tok, dev, goip, pbx, batch>>

(***************************************************************************)
(* DeviceSlotSync: GoIP.set_incoming_enabled                               *)
(*                                                                         *)
(* The device holds, for each of its 32 lines, the forwarding flag, the    *)
(* forwarding alias, call waiting, group mode, forward mode and the        *)
(* blacklist flag, and two device-wide fields of the same form.  Its form  *)
(* page is a list of input tags; the handler reads the page with regular   *)
(* expressions, posts one value per field and reads the page again.        *)
(***************************************************************************)
NSlots ==
  32

Slots ==
  1..NSlots

\* The slot arguments tried: below the range, the first line, the last line,
\* above the range.
GoipSlotArgs ==
  {0, 1, NSlots, NSlots + 1}

\* Concurrent callers of the device (the race specification uses both).
GoipCallers ==
  {1, 2}

NoAlias ==
  <<>>

\* Line configurations the device starts from, spread over its 32 lines.
SlotPalette ==
  << [fw |-> "off", alias |-> NoAlias, cw |-> "0", gm |-> "DISABLE", fm |-> "0",
      bl |-> "off"],
     [fw |-> "on", alias |-> <<"custom">>, cw |-> "1", gm |-> "ENABLE", fm |-> "1",
      bl |-> "on"],
     [fw |-> "on", alias |-> NoAlias, cw |-> "0", gm |-> "ENABLE", fm |-> "0",
      bl |-> "on"],
     [fw |-> "off", alias |-> <<"custom">>, cw |-> "1", gm |-> "DISABLE", fm |-> "1",
      bl |-> "off"] >>

DevIdle ==
  [slot |-> [j \in Slots |-> SlotPalette[1]], user_noinput_t |-> "60",
   cid_fw_mode |-> "1"]

\* gr.text / vr.text
Page(d) ==
  LET
    \* The input tags of line j on the form page, in page order: the on/off radio
    \* pair, the alias text field, the three mode fields and the blacklist checkbox.
    SlotTags(cfg) ==
      << [field |-> "fw_to_voip", value |-> "on", checked |-> cfg.fw = "on"],
         [field |-> "fw_to_voip", value |-> "off", checked |-> cfg.fw = "off"],
         [field |-> "fw_num_to_voip", value |-> cfg.alias, checked |-> FALSE],
         [field |-> "gsm_cw", value |-> cfg.cw, checked |-> FALSE],
         [field |-> "gsm_group_mode", value |-> cfg.gm, checked |-> FALSE],
         [field |-> "gsm_fw_mode", value |-> cfg.fm, checked |-> FALSE],
         [field |-> "auto_blacklist_in_enable", value |-> "on",
          checked |-> cfg.bl = "on"] >>
  IN
  [j \in Slots |-> SlotTags(d.slot[j])]

\* re.search(name="line{i}_<field>"[^>]*value="([^"]*)"): the value of the first
\* tag of that name, or the default when no tag matches.
FirstValue(tags, field, default) ==
  LET hits == {k \in 1..Len(tags) : tags[k].field = field} IN
  IF hits = {} THEN default
  ELSE tags[CHOOSE k \in hits : \A h \in hits : k <= h].value

\* re.search(name="line{i}_<field>" ... checked): some tag of that name (and of
\* that value, for the radio pair) is checked.
AnyChecked(tags, field, value) ==
  \E k \in 1..Len(tags) :
    tags[k].field = field /\ tags[k].value = value /\ tags[k].checked

\* A slip of the form builder: only the flag and the alias are read from the
\* page, the other fields of a line are posted with their defaults.
ParseSlotFlagAliasOnly(tags) ==
  [fw |-> IF AnyChecked(tags, "fw_to_voip", "on") THEN "on" ELSE "off",
   alias |-> FirstValue(tags, "fw_num_to_voip", NoAlias),
   cw |-> "0", gm |-> "DISABLE", fm |-> "0", bl |-> "off"]

\* A form builder that does not read the flag of a line from the page.
ParseSlotFlagDefault(tags) ==
  [fw |-> "off",
   alias |-> FirstValue(tags, "fw_num_to_voip", NoAlias),
   cw |-> FirstValue(tags, "gsm_cw", "0"),
   gm |-> FirstValue(tags, "gsm_group_mode", "DISABLE"),
   fm |-> FirstValue(tags, "gsm_fw_mode", "0"),
   bl |-> IF AnyChecked(tags, "auto_blacklist_in_enable", "on") THEN "on"
          ELSE "off"]

\* for i in range(1, 33): the six form_data entries of line i
ParseSlot(tags) ==
  [fw |-> IF AnyChecked(tags, "fw_to_voip", "on") THEN "on" ELSE "off",
   alias |-> FirstValue(tags, "fw_num_to_voip", NoAlias),
   cw |-> FirstValue(tags, "gsm_cw", "0"),
   gm |-> FirstValue(tags, "gsm_group_mode", "DISABLE"),
   fm |-> FirstValue(tags, "gsm_fw_mode", "0"),
   bl |-> IF AnyChecked(tags, "auto_blacklist_in_enable", "on") THEN "on"
          ELSE "off"]

\* Step 3 with an alias that is dropped when the line already has one.
TargetSlotAliasFlips(cfg, slot, enabled) ==
  IF enabled
  THEN [cfg EXCEPT !.fw = "on",
                   !.alias = IF @ = NoAlias THEN <<"sim", slot>> ELSE NoAlias]
  ELSE [cfg EXCEPT !.fw = "off", !.alias = NoAlias]

\* Step 3: only the targeted line's flag and alias are overwritten.
TargetSlot(cfg, slot, enabled) ==
  IF enabled
  THEN [cfg EXCEPT !.fw = "on",
                   !.alias = IF @ = NoAlias THEN <<"sim", slot>> ELSE @]
  ELSE [cfg EXCEPT !.fw = "off", !.alias = NoAlias]

\* form_data as built from the page html for the call (slot, enabled)
form_data(html, slot, enabled) ==
  [user_noinput_t |-> "60", cid_fw_mode |-> "1",
   line |-> [j \in Slots |->
               IF j = slot THEN TargetSlot(ParseSlot(html[j]), slot, enabled)
               ELSE ParseSlot(html[j])]]

\* The device stores a posted form.
DevApply(d, form) ==
  [slot |-> form.line, user_noinput_t |-> form.user_noinput_t,
   cid_fw_mode |-> form.cid_fw_mode]

\* Step 5: an <input name="line{slot}_fw_to_voip" value="on"> tag with `checked`.
VerifyChecked(html, slot) ==
  AnyChecked(html[slot], "fw_to_voip", "on")

\* A slip of the verification: the re-read flag is not compared.
VerdictUnchecked(enabled, checked) ==
  [ok |-> TRUE, msg |-> "done"]

\* if enabled and not checked / if not enabled and checked / return True
Verdict(enabled, checked) ==
  IF enabled /\ ~checked THEN [ok |-> FALSE, msg |-> "still_off"]
  ELSE IF ~enabled /\ checked THEN [ok |-> FALSE, msg |-> "still_on"]
  ELSE [ok |-> TRUE, msg |-> "done"]

NoResult ==
  [ok |-> FALSE, msg |-> "pending"]

GoipIdle ==
  LET
    GoipCallIdle ==
      [pc |-> "idle"]
  IN
  [c \in GoipCallers |-> GoipCallIdle]

\* Retry(total=2, allowed_methods={"GET", "POST"}) of the session's adapter: a
\* request whose connection is reset or times out is sent again, RetryTotal
\* times at most, before the exception reaches the caller.
RetryTotal ==
  2

\* The attempts of one s.get / s.post that failed: 0 .. RetryTotal when the
\* call returns an answer, RetryTotal + 1 when it raises.  A steady device
\* answers every request.
AttemptsFailed(g) ==
  IF g.steady THEN {0} ELSE 0..(RetryTotal + 1)

\* A session without the adapter's retries.
CallRaisesAtFirstFailure(failed) ==
  failed > 0

CallRaises(failed) ==
  failed > RetryTotal

\* fails: the failed attempts of the operation so far (2: two or more).
Counted(g, failed) ==
  [g EXCEPT !.fails = IF @ + failed > 2 THEN 2 ELSE @ + failed]

NoPrev ==
  [set |-> FALSE, result |-> NoResult, dev |-> DevIdle]

\* `continue` / the except clause: the next Authorization variant, or the
\* return after the loop.
NextVariant(g) ==
  IF g.ah < g.nauth THEN [g EXCEPT !.ah = @ + 1, !.pc = "get"]
  ELSE [g EXCEPT !.pc = "done", !.result = [ok |-> FALSE, msg |-> "network"]]

\* The locals of a call (slot, enabled).  nauth: the number of Authorization
\* variants (utf-8, latin-1) the credentials encode to; accepted: the variants
\* the device accepts; odd: the device answered with an unexpected status or
\* did not store a form it answered; overlap: the call began while another
\* call on the device was between its first GET and its return.
GoipCall(slot, enabled, nauth, accepted, steady, prev) ==
  LET g == [pc |-> "get", slot |-> slot, enabled |-> enabled, nauth |-> nauth,
            accepted |-> accepted, ah |-> 1, form |-> <<>>, dev0 |-> dev,
            posts |-> 0, dev_at_post |-> dev, verified |-> "none",
            result |-> NoResult, fails |-> 0, odd |-> FALSE, steady |-> steady,
            prev |-> prev, overlap |-> FALSE] IN
  IF slot < 1 \/ slot > NSlots
  THEN [g EXCEPT !.pc = "done", !.result = [ok |-> FALSE, msg |-> "range"]]
  ELSE g

\* set_incoming_enabled(slot, enabled) is called.
set_incoming_enabled_call(c) ==
  /\ goip[c].pc \in {"idle", "done"}
  /\ \E slot \in GoipSlotArgs, enabled \in BOOLEAN, nauth \in 1..2 :
     \E accepted \in SUBSET (1..nauth) :
       goip' = [goip EXCEPT ![c] =
                  GoipCall(slot, enabled, nauth, accepted, FALSE, NoPrev)]
  /\ UNCHANGED <<ssh, sess, pt, nf, tok, mut, dev, pbx, batch>>

\* set_incoming_enabled(slot, enabled) is called on a device that answers
\* every request with 200 and stores what is posted.
set_incoming_enabled_steady(c) ==
  /\ goip[c].pc = "idle"
  /\ \E slot \in GoipSlotArgs, enabled \in BOOLEAN, nauth \in 1..2 :
     \E accepted \in SUBSET (1..nauth) :
       goip' = [goip EXCEPT ![c] =
                  GoipCall(slot, enabled, nauth, accepted, TRUE, NoPrev)]
  /\ UNCHANGED <<ssh, sess, pt, nf, tok, mut, dev, pbx, batch>>

\* The same call again, right after the first returned.
set_incoming_enabled_again(c) ==
  LET g == goip[c] IN
  /\ g.pc = "done" /\ ~g.prev.set
  /\ goip' = [goip EXCEPT ![c] =
                GoipCall(g.slot, g.enabled, g.nauth, g.accepted, g.steady,
                         [set |-> TRUE, result |-> g.result, dev |-> dev])]
  /\ UNCHANGED <<ssh, sess, pt, nf, tok, mut, dev, pbx, batch>>

\* set_incoming_enabled(slot, enabled) is called by one of two callers of a
\* responsive device that accepts the credentials, each on a line of its own;
\* nothing in GoIP or in the handlers keeps the two calls apart.
set_incoming_enabled_concurrent(c) ==
  /\ goip[c].pc = "idle"
  /\ \E slot \in {1, NSlots}, enabled \in BOOLEAN :
       /\ \A o \in GoipCallers \ {c} : goip[o].pc # "idle" => goip[o].slot # slot
       /\ goip' = [goip EXCEPT ![c] =
                     [GoipCall(slot, enabled, 1, {1}, TRUE, NoPrev) EXCEPT
                        !.overlap = \E o \in GoipCallers \ {c} :
                                      goip[o].pc \notin {"idle", "done"}]]
  /\ UNCHANGED <<ssh, sess, pt, nf, tok, mut, dev, pbx, batch>>

\* Step 1 and 2: GET the form and build form_data.
set_incoming_enabled_get(c) ==
  LET g == goip[c] IN
  /\ g.pc = "get"
  /\ \E failed \in AttemptsFailed(g) :
       LET h == Counted(g, failed) IN
       \/ \* the GET raises (timeout, reset)
          /\ CallRaises(failed)
          /\ goip' = [goip EXCEPT ![c] = NextVariant(h)]
       \/ \* 401 / 403 under this encoding
          /\ ~CallRaises(failed) /\ g.ah \notin g.accepted
          /\ goip' = [goip EXCEPT ![c] = NextVariant(h)]
       \/ \* any other status than 200
          /\ ~CallRaises(failed) /\ g.ah \in g.accepted /\ ~g.steady
          /\ goip' = [goip EXCEPT ![c] =
                        [h EXCEPT !.pc = "done", !.odd = TRUE,
                                  !.result = [ok |-> FALSE, msg |-> "form_http"]]]
       \/ \* 200
          /\ ~CallRaises(failed) /\ g.ah \in g.accepted
          /\ goip' = [goip EXCEPT ![c] =
                        [h EXCEPT !.pc = "post",
                                  !.form = form_data(Page(dev), g.slot, g.enabled)]]
  /\ UNCHANGED <<ssh, sess, pt, nf, tok, mut, dev, pbx, batch>>

\* Step 4: POST the whole form.  The device stores it or not, and answers or
\* not; an attempt whose answer was lost may have been stored.
set_incoming_enabled_post(c) ==
  LET g == goip[c] IN
  /\ g.pc = "post"
  /\ \E failed \in AttemptsFailed(g) :
       LET sent == [Counted(g, failed) EXCEPT !.posts = @ + 1, !.dev_at_post = dev]
           maybe == IF failed > 0 THEN {dev, DevApply(dev, g.form)} ELSE {dev} IN
       \/ \* stored, 200 or 302
          /\ ~CallRaises(failed)
          /\ dev' = DevApply(dev, g.form)
          /\ goip' = [goip EXCEPT ![c] = [sent EXCEPT !.pc = "verify"]]
       \/ \* answered 200 but not stored
          /\ ~CallRaises(failed) /\ ~g.steady
          /\ dev' \in maybe
          /\ goip' = [goip EXCEPT ![c] = [sent EXCEPT !.pc = "verify", !.odd = TRUE]]
       \/ \* another status: not stored
          /\ ~CallRaises(failed) /\ ~g.steady
          /\ dev' \in maybe
          /\ goip' = [goip EXCEPT ![c] =
                        [sent EXCEPT !.pc = "done", !.odd = TRUE,
                                     !.result = [ok |-> FALSE, msg |-> "post_http"]]]
       \/ \* the connection drops, before or after the device stored the form
          /\ CallRaises(failed)
          /\ dev' \in {dev, DevApply(dev, g.form)}
          /\ goip' = [goip EXCEPT ![c] = NextVariant(sent)]
  /\ UNCHANGED <<ssh, sess, pt, nf, tok, mut, pbx, batch>>

\* Step 5: GET again and compare the targeted line's flag.
set_incoming_enabled_verify(c) ==
  LET g == goip[c] IN
  /\ g.pc = "verify"
  /\ \E failed \in AttemptsFailed(g) :
       LET h == Counted(g, failed) IN
       \/ \* the GET raises
          /\ CallRaises(failed)
          /\ goip' = [goip EXCEPT ![c] = NextVariant([h EXCEPT !.verified = "net"])]
       \/ \* any other status than 200
          /\ ~CallRaises(failed) /\ ~g.steady
          /\ goip' = [goip EXCEPT ![c] =
                        [h EXCEPT !.pc = "done", !.verified = "http", !.odd = TRUE,
                                  !.result = [ok |-> FALSE, msg |-> "verify_http"]]]
       \/ \* 200
          /\ ~CallRaises(failed)
          /\ LET checked == VerifyChecked(Page(dev), g.slot) IN
             goip' = [goip EXCEPT ![c] =
                        [h EXCEPT !.pc = "done",
                                  !.verified = IF checked = g.enabled THEN "match"
                                               ELSE "mismatch",
                                  !.result = Verdict(g.enabled, checked)]]
  /\ UNCHANGED <<ssh, sess, pt, nf, tok, mut, dev, pbx, batch>>

\* ---- check_status ----------------------------------------------------------
\* check_status() is called; tries: the GETs of the status page sent under the
\* current Authorization variant (for _ in range(2)).
check_status_call(c) ==
  /\ goip[c].pc \in {"idle", "done", "cs_done"}
  /\ \E nauth \in 1..2 : \E accepted \in SUBSET (1..nauth) :
       goip' = [goip EXCEPT ![c] =
                  [pc |-> "cs_get", nauth |-> nauth, accepted |-> accepted,
                   ah |-> 1, tries |-> 0, fails |-> 0,
                   result |-> [status |-> "pending", msg |-> "pending"]]]
  /\ UNCHANGED <<ssh, sess, pt, nf, tok, mut, dev, pbx, batch>>

\* After the inner loop of a variant: the next variant, or the return after the
\* outer loop.
StatusNextVariant(g) ==
  IF g.ah < g.nauth THEN [g EXCEPT !.ah = @ + 1, !.tries = 0]
  ELSE [g EXCEPT !.pc = "cs_done",
                 !.result = [status |-> "error", msg |-> "network"]]

\* One GET of the status page.
check_status_get(c) ==
  LET g == goip[c] IN
  /\ g.pc = "cs_get"
  /\ \/ \* the GET raises: sleep, and the second pass of the inner loop
        LET h == [g EXCEPT !.tries = @ + 1, !.fails = IF @ < 2 THEN @ + 1 ELSE @] IN
        goip' = [goip EXCEPT ![c] = IF h.tries < 2 THEN h ELSE StatusNextVariant(h)]
     \/ \* 401 / 403: break
        /\ g.ah \notin g.accepted
        /\ goip' = [goip EXCEPT ![c] = StatusNextVariant(g)]
     \/ \* any other status than 200
        /\ g.ah \in g.accepted
        /\ goip' = [goip EXCEPT ![c] =
                      [g EXCEPT !.pc = "cs_done",
                                !.result = [status |-> "error", msg |-> "http"]]]
     \/ \* 200: the body looks like the status page, or not
        /\ g.ah \in g.accepted
        /\ \E res \in {[status |-> "ready", msg |-> "ready"],
                       [status |-> "error", msg |-> "not_goip"]} :
             goip' = [goip EXCEPT ![c] = [g EXCEPT !.pc = "cs_done", !.result = res]]
  /\ UNCHANGED <<ssh, sess, pt, nf, tok, mut, dev, pbx, batch>>

SpecGoipNext ==
  set_incoming_enabled_call(1) \/ set_incoming_enabled_get(1) \/ set_incoming_enabled_post(1) \/ set_incoming_enabled_verify(1)

(***************************************************************************)
(* BatchProvisioner: the batch commands of handlers/commands.py and        *)
(* handlers/callbacks.py.  One behaviour runs one command against a PBX    *)
(* whose extensions, display names and inbound routes are drawn in Init.   *)
(***************************************************************************)
\* Extension numbers of the batches: BExtLow .. BExtLow + BNumExts - 1.
BExtLow ==
  401
BNumExts ==
  3
\* /create <eq> <cnt>: cnt in 1..BMaxCreate
BMaxCreate ==
  2

BExts ==
  BExtLow..(BExtLow + BNumExts - 1)

RECURSIVE SortedSeq(_)
SortedSeq(S) ==
  IF S = {} THEN <<>>
  ELSE LET m == CHOOSE x \in S : \A y \in S : x <= y IN <<m>> \o SortedSeq(S \ {m})

\* The DIDs a route of extension e can have: "_sim<e>" and "<e>".
SimDid(e) ==
  <<"sim", e>>
PlainDid(e) ==
  <<"plain", e>>

PbxIdle ==
  [exts |-> {}, names |-> {}, routes |-> {}, twice |-> {}]

BatchIdle ==
  [pc |-> "idle"]

\* Before the GOIP step of a command / before the first command of a chat.
NoGoipStep ==
  [i |-> 0, applies |-> 0, ok |-> <<>>, skipped |-> <<>>, failed |-> <<>>,
   routes |-> {}]

NoCmd ==
  [cmd |-> "none", requested |-> <<>>, ok |-> <<>>, failed |-> <<>>, routes |-> {},
   done |-> FALSE]

\* The locals of a command before its first backend call.  goip_at: the
\* handler's lists, the applies made and the routes when the GOIP step began;
\* run, clean, prev: the number of the command in the chat, whether every call
\* of the earlier commands succeeded, and the command before.
BNew(cmd, requested, cnt) ==
  [cmd |-> cmd, pc |-> "start", requested |-> requested, cnt |-> cnt,
   todo |-> <<>>, missing |-> <<>>, i |-> 0,
   ok |-> <<>>, skipped |-> <<>>, skipped_name |-> <<>>, failed |-> <<>>,
   known |-> {}, dids |-> {}, name_ok |-> FALSE, name_set |-> {},
   snapshot |-> {}, dids0 |-> {},
   applies |-> 0, apply_at |-> <<>>, apply_status |-> "none",
   calls |-> <<>>, summary |-> FALSE,
   goip |-> "none", goip_done |-> {}, goip_errs |-> {}, error |-> "none",
   goip_at |-> NoGoipStep, run |-> 1, clean |-> TRUE, prev |-> NoCmd]

\* fb.apply_config() / _ssh_run("fwconsole reload") is invoked and ends as `out`.
Applied(b, out) ==
  [b EXCEPT !.applies = @ + 1, !.apply_at = Append(@, b.i), !.apply_status = out]

Logged(b, op, ext, out) ==
  [b EXCEPT !.calls = Append(@, [op |-> op, ext |-> ext, out |-> out])]

\* A loop body that counts the extension as soon as create_one returned, before
\* the password call: the extension is counted also when set_ext_password raises.
CreateAndSecretCountsEarly(b, ext, out) ==
  CASE out = "create_failed" ->
         [Logged(b, "create_one", ext, "error") EXCEPT
            !.pc = "aborted", !.error = "item"]
    [] out = "token_failed" ->
         [Logged(b, "create_one", ext, "auth") EXCEPT
            !.pc = "aborted", !.error = "item"]
    [] out = "password_failed" ->
         [Logged(Logged(b, "create_one", ext, "ok"), "set_ext_password", ext, "error")
            EXCEPT !.ok = Append(@, ext), !.pc = "aborted", !.error = "item"]
    [] OTHER ->
         [Logged(Logged(b, "create_one", ext, "ok"), "set_ext_password", ext, "ok")
            EXCEPT !.ok = Append(@, ext), !.i = @ + 1, !.known = @ \cup {ext}]

\* ---- create_cmd ----------------------------------------------------------
\* One iteration of the create / add loop body that creates: create_one, then
\* set_ext_password, then the counter.  An exception of either call leaves the
\* loop and the try block (the handler's only except clause is the outer one).
CreateAndSecret(b, ext, out) ==
  CASE out = "create_failed" ->
         [Logged(b, "create_one", ext, "error") EXCEPT
            !.pc = "aborted", !.error = "item"]
    [] out = "token_failed" ->
         [Logged(b, "create_one", ext, "auth") EXCEPT
            !.pc = "aborted", !.error = "item"]
    [] out = "password_failed" ->
         [Logged(Logged(b, "create_one", ext, "ok"), "set_ext_password", ext, "error")
            EXCEPT !.pc = "aborted", !.error = "item"]
    [] OTHER ->
         [Logged(Logged(b, "create_one", ext, "ok"), "set_ext_password", ext, "ok")
            EXCEPT !.ok = Append(@, ext), !.i = @ + 1, !.known = @ \cup {ext}]

CreateOutcomes ==
  {"created", "create_failed", "token_failed", "password_failed"}

\* The PBX after a create item: the extension exists once create_one succeeded.
PbxAfterCreate(p, ext, out) ==
  IF out \in {"create_failed", "token_failed"} THEN p
  ELSE [p EXCEPT !.exts = @ \cup {ext}, !.names = @ \cup {ext}]

create_cmd_start ==
  /\ batch.cmd = "create" /\ batch.pc = "start"
  /\ \/ \* fetch_all_extensions raises
        batch' = [batch EXCEPT !.pc = "aborted", !.error = "fetch"]
     \/ LET existing == {ToStr(e) : e \in pbx.exts}
            start == equip_start(BExtLow \div 100)
            targets == next_free(existing, start, batch.cnt) IN
        batch' = [batch EXCEPT !.pc = "loop", !.known = pbx.exts,
                    !.snapshot = pbx.exts,
                    !.todo = [k \in 1..Len(targets) |-> ToInt(targets[k])]]
  /\ UNCHANGED <<ssh, sess, pt, nf, tok, mut, dev, goip, pbx>>

create_cmd_item ==
  /\ batch.cmd = "create" /\ batch.pc = "loop" /\ batch.i < Len(batch.todo)
  /\ \E out \in CreateOutcomes :
       LET ext == batch.todo[batch.i + 1] IN
       /\ batch' = CreateAndSecret(batch, ext, out)
       /\ pbx' = PbxAfterCreate(pbx, ext, out)
  /\ UNCHANGED <<ssh, sess, pt, nf, tok, mut, dev, goip>>

\* After the loop: `if targets:` apply_config (its failure is only reported),
\* then the list is fetched again.
create_cmd_finish ==
  /\ batch.cmd = "create" /\ batch.pc = "loop" /\ batch.i = Len(batch.todo)
  /\ \E out \in {"ok", "failed"}, refresh \in {"none", "refresh"} :
       batch' = [(IF Len(batch.todo) > 0 THEN Applied(batch, out) ELSE batch)
                   EXCEPT !.pc = "done", !.error = refresh]
  /\ UNCHANGED <<ssh, sess, pt, nf, tok, mut, dev, goip, pbx>>

\* ---- add_cmd -------------------------------------------------------------
\* fetch_ext_index never raises: when every query fails it returns ({}, set(),
\* False).
add_cmd_start ==
  /\ batch.cmd = "add" /\ batch.pc = "start"
  /\ \E index \in {"ok", "failed"} :
       batch' = [batch EXCEPT
                   !.pc = "loop", !.todo = batch.requested,
                   !.known = IF index = "ok" THEN pbx.exts ELSE {},
                   !.snapshot = IF index = "ok" THEN pbx.exts ELSE {},
                   !.name_set = IF index = "ok" THEN pbx.names ELSE {},
                   !.name_ok = index = "ok" /\ pbx.names # {}]
  /\ UNCHANGED <<ssh, sess, pt, nf, tok, mut, dev, goip, pbx>>

\* `ext in existing_exts` with the set as fetched, never added to.
InExistingAsFetched(b, ext) ==
  ext \in b.snapshot

\* `ext in existing_exts`: the fetched index plus existing_exts.add(ext) of the
\* items created so far.
InExisting(b, ext) ==
  ext \in b.known

\* ext = str(int(raw)): two spellings of a number are the same ext.
add_cmd_item ==
  /\ batch.cmd = "add" /\ batch.pc = "loop" /\ batch.i < Len(batch.todo)
  /\ LET ext == batch.todo[batch.i + 1] IN
     \/ \* if ext in existing_exts
        /\ InExisting(batch, ext)
        /\ batch' = [batch EXCEPT !.skipped = Append(@, ext), !.i = @ + 1]
        /\ pbx' = pbx
     \/ \* elif name_ok and cand_name in name_set (no name given: cand_name = ext)
        /\ ~InExisting(batch, ext)
        /\ batch.name_ok /\ ext \in batch.name_set
        /\ batch' = [batch EXCEPT !.skipped_name = Append(@, ext), !.i = @ + 1]
        /\ pbx' = pbx
     \/ /\ ~InExisting(batch, ext)
        /\ ~(batch.name_ok /\ ext \in batch.name_set)
        /\ \E out \in CreateOutcomes :
             /\ batch' = [CreateAndSecret(batch, ext, out) EXCEPT
                            !.name_set = IF out = "created" /\ batch.name_ok
                                         THEN @ \cup {ext} ELSE @]
             /\ pbx' = PbxAfterCreate(pbx, ext, out)
  /\ UNCHANGED <<ssh, sess, pt, nf, tok, mut, dev, goip>>

\* The summary, `if created:` apply_config, the list again.
add_cmd_finish ==
  /\ batch.cmd = "add" /\ batch.pc = "loop" /\ batch.i = Len(batch.todo)
  /\ \E out \in {"ok", "failed"}, refresh \in {"none", "refresh"} :
       batch' = [(IF batch.ok # <<>> THEN Applied(batch, out) ELSE batch)
                   EXCEPT !.pc = "done", !.summary = TRUE, !.error = refresh]
  /\ UNCHANGED <<ssh, sess, pt, nf, tok, mut, dev, goip, pbx>>

\* ---- del_cmd -------------------------------------------------------------
\* A slip of the loop: the except clause drops the failed item (`pass`).
DelRecordDropFailed(b, ext, out) ==
  IF out = "ok"
  THEN [Logged(b, "delete_extension", ext, out) EXCEPT
          !.ok = Append(@, ext), !.i = @ + 1]
  ELSE [Logged(b, "delete_extension", ext, out) EXCEPT !.i = @ + 1]

\* try: delete_extension; ok.append / except Exception: failed.append
DelRecord(b, ext, out) ==
  IF out = "ok"
  THEN [Logged(b, "delete_extension", ext, out) EXCEPT
          !.ok = Append(@, ext), !.i = @ + 1]
  ELSE [Logged(b, "delete_extension", ext, out) EXCEPT
          !.failed = Append(@, ext), !.i = @ + 1]

PbxAfterDelete(p, ext, out) ==
  IF out = "ok" THEN [p EXCEPT !.exts = @ \ {ext}, !.names = @ \ {ext}] ELSE p

del_cmd_start ==
  /\ batch.cmd = "del" /\ batch.pc = "start"
  /\ \E index \in {"ok", "failed"} :
       LET existing == IF index = "ok" THEN pbx.exts ELSE {} IN
       batch' = [batch EXCEPT
                   !.pc = "loop", !.known = existing,
                   !.todo = SelectSeq(batch.requested, LAMBDA x : x \in existing),
                   !.missing = SelectSeq(batch.requested, LAMBDA x : x \notin existing)]
  /\ UNCHANGED <<ssh, sess, pt, nf, tok, mut, dev, goip, pbx>>

del_cmd_item ==
  /\ batch.cmd = "del" /\ batch.pc = "loop" /\ batch.i < Len(batch.todo)
  /\ \E out \in {"ok", "error", "auth"} :
       LET ext == batch.todo[batch.i + 1] IN
       /\ batch' = DelRecord(batch, ext, out)
       /\ pbx' = PbxAfterDelete(pbx, ext, out)
  /\ UNCHANGED <<ssh, sess, pt, nf, tok, mut, dev, goip>>

\* The summary, `if ok:` apply_config, the list again.
del_cmd_finish ==
  /\ batch.cmd = "del" /\ batch.pc = "loop" /\ batch.i = Len(batch.todo)
  /\ \E out \in {"ok", "failed"}, refresh \in {"none", "refresh"} :
       batch' = [(IF batch.ok # <<>> THEN Applied(batch, out) ELSE batch)
                   EXCEPT !.pc = "done", !.summary = TRUE, !.error = refresh]
  /\ UNCHANGED <<ssh, sess, pt, nf, tok, mut, dev, goip, pbx>>

\* ---- del_all_cb ----------------------------------------------------------
del_all_cb_start ==
  /\ batch.cmd = "del_all" /\ batch.pc = "start"
  /\ \/ \* fetch_all_extensions raises
        batch' = [batch EXCEPT !.pc = "aborted", !.error = "fetch"]
     \/ batch' = [batch EXCEPT !.pc = "loop", !.todo = SortedSeq(pbx.exts),
                               !.requested = SortedSeq(pbx.exts)]
  /\ UNCHANGED <<ssh, sess, pt, nf, tok, mut, dev, goip, pbx>>

\* try: delete_extension / except Exception: pass; done += 1
del_all_cb_item ==
  /\ batch.cmd = "del_all" /\ batch.pc = "loop" /\ batch.i < Len(batch.todo)
  /\ \E out \in {"ok", "error", "auth"} :
       LET ext == batch.todo[batch.i + 1] IN
       /\ batch' = [Logged(batch, "delete_extension", ext, out) EXCEPT !.i = @ + 1]
       /\ pbx' = PbxAfterDelete(pbx, ext, out)
  /\ UNCHANGED <<ssh, sess, pt, nf, tok, mut, dev, goip>>

\* `if total:` apply_config; on its failure the handler reports it and returns.
del_all_cb_finish ==
  /\ batch.cmd = "del_all" /\ batch.pc = "loop" /\ batch.i = Len(batch.todo)
  /\ \E out \in {"ok", "failed"} :
       batch' = [(IF Len(batch.todo) > 0 THEN Applied(batch, out) ELSE batch)
                   EXCEPT !.pc = "done"]
  /\ UNCHANGED <<ssh, sess, pt, nf, tok, mut, dev, goip, pbx>>

\* ---- add_inbound_cmd / del_inbound_cmd -----------------------------------
\* n % 100 when that is one of the 32 slots, else None
ext_to_slot(ext) ==
  LET slot == ext % 100 IN
  IF 1 <= slot /\ slot <= NSlots THEN slot ELSE None

\* sorted({ext_to_slot(x) for x in ok if ext_to_slot(x)})
SlotsOf(oks) ==
  {ext_to_slot(x) : x \in Range(oks)} \ {None}

\* A GOIP step that takes the routes' results back when it cannot run or a line
\* fails: the items of those lines are moved from the done list to the failed one.
GoipReconciledRollsBack(b, connected, done) ==
  LET slots == SlotsOf(b.ok)
      at == [b EXCEPT !.goip_at = [i |-> b.i, applies |-> b.applies, ok |-> b.ok,
                                   skipped |-> b.skipped, failed |-> b.failed,
                                   routes |-> pbx.routes]] IN
  IF ~connected
  THEN [at EXCEPT !.goip = "nosession", !.ok = <<>>, !.failed = @ \o b.ok]
  ELSE IF slots = {} THEN [at EXCEPT !.goip = "noslots"]
  ELSE [at EXCEPT !.goip = "ran", !.goip_done = done, !.goip_errs = slots \ done,
                  !.ok = SelectSeq(@, LAMBDA x : ext_to_slot(x) \notin slots \ done),
                  !.failed = @ \o SelectSeq(b.ok,
                                            LAMBDA x : ext_to_slot(x) \in slots \ done)]

\* The GOIP step after the routes: goip_from_session raises, or every slot is
\* toggled and ends in done or errs, or no target maps to a slot.
GoipReconciled(b, connected, done) ==
  LET slots == SlotsOf(b.ok)
      at == [b EXCEPT !.goip_at = [i |-> b.i, applies |-> b.applies, ok |-> b.ok,
                                   skipped |-> b.skipped, failed |-> b.failed,
                                   routes |-> pbx.routes]] IN
  IF ~connected THEN [at EXCEPT !.goip = "nosession"]
  ELSE IF slots = {} THEN [at EXCEPT !.goip = "noslots"]
  ELSE [at EXCEPT !.goip = "ran", !.goip_done = done, !.goip_errs = slots \ done]

\* The lines the device stored a form for during the GOIP step: none without a
\* GOIP session, else those of the calls that returned True (their flag was
\* re-read) and any of the calls that failed.
ToggleStores(b, connected, done) ==
  IF ~connected THEN {{}}
  ELSE {stored \in SUBSET SlotsOf(b.ok) : done \subseteq stored}

\* The device after set_incoming_enabled(s, enabled) stored its form for the
\* lines `stored`.
DevAfterToggles(d, stored, enabled) ==
  [d EXCEPT !.slot = [j \in Slots |->
                        IF j \in stored THEN TargetSlot(d.slot[j], j, enabled)
                        ELSE d.slot[j]]]

\* A slip of the route loop: AlreadyExists is not told from the other errors.
InboundRecordExistsAsFailed(b, ext, out) ==
  CASE out = "ok" ->
         [Logged(b, "create_inbound_route", ext, out) EXCEPT
            !.ok = Append(@, ext), !.dids = @ \cup {SimDid(ext)}, !.i = @ + 1]
    [] OTHER ->
         [Logged(b, "create_inbound_route", ext, out) EXCEPT
            !.failed = Append(@, ext), !.i = @ + 1]

\* try: create_inbound_route; ok.append; existing_dids.add
\* except AlreadyExists: skipped_exists.append / except Exception: failed.append
InboundRecord(b, ext, out) ==
  CASE out = "ok" ->
         [Logged(b, "create_inbound_route", ext, out) EXCEPT
            !.ok = Append(@, ext), !.dids = @ \cup {SimDid(ext)}, !.i = @ + 1]
    [] out = "exists" ->
         [Logged(b, "create_inbound_route", ext, out) EXCEPT
            !.skipped = Append(@, ext), !.i = @ + 1]
    [] OTHER ->
         [Logged(b, "create_inbound_route", ext, out) EXCEPT
            !.failed = Append(@, ext), !.i = @ + 1]

add_inbound_cmd_start ==
  /\ batch.cmd = "add_inbound" /\ batch.pc = "start"
  /\ \/ \* list_inbound_routes raises
        batch' = [batch EXCEPT !.pc = "aborted", !.error = "fetch"]
     \/ \E index \in {"ok", "failed"} :
          LET existing == IF index = "ok" THEN pbx.exts ELSE {}
              todo == SelectSeq(batch.requested, LAMBDA x : x \in existing)
              missing == SelectSeq(batch.requested, LAMBDA x : x \notin existing) IN
          batch' = [batch EXCEPT
                      !.known = existing, !.dids = pbx.routes,
                      !.snapshot = existing, !.dids0 = pbx.routes,
                      !.todo = todo, !.missing = missing,
                      \* if total == 0: reply and return
                      !.pc = IF Len(todo) = 0 THEN "done" ELSE "loop",
                      !.summary = Len(todo) = 0]
  /\ UNCHANGED <<ssh, sess, pt, nf, tok, mut, dev, goip, pbx>>

\* A skip test that looks for the plain DID only and misses the _sim<ext> routes
\* the command itself creates.
DidKnownPlainOnly(b, ext) ==
  PlainDid(ext) \in b.dids

\* if ext in existing_dids or did_prefx in existing_dids
DidKnown(b, ext) ==
  PlainDid(ext) \in b.dids \/ SimDid(ext) \in b.dids

add_inbound_cmd_item ==
  LET
    \* The backend after it stored `stored` routes of the DID; twice: the DIDs that
    \* more than one route has.
    PbxAfterRoutes(p, did, stored) ==
      IF stored = 0 THEN p
      ELSE [p EXCEPT !.routes = @ \cup {did},
                     !.twice = IF stored > 1 \/ did \in p.routes THEN @ \cup {did} ELSE @]
    \* create_inbound_route posts addInboundRoute once per destination candidate
    \* and goes to the next candidate on any exception but AlreadyExists.  The
    \* routes the backend can have stored when the call ends as `out`: a POST whose
    \* answer is an error or is lost may have been stored.
    RouteStores(out) ==
      CASE out = "ok" -> {1, 2}
        [] out = "exists" -> {0, 1}
        [] out = "error" -> {0, 1, 2}
        [] OTHER -> {0}
  IN
  /\ batch.cmd = "add_inbound" /\ batch.pc = "loop" /\ batch.i < Len(batch.todo)
  /\ LET ext == batch.todo[batch.i + 1] IN
     \/ /\ DidKnown(batch, ext)
        /\ batch' = [batch EXCEPT !.skipped = Append(@, ext), !.i = @ + 1]
        /\ pbx' = pbx
     \/ /\ ~DidKnown(batch, ext)
        /\ \E out \in {"ok", "exists", "error", "auth"} :
           \E stored \in RouteStores(out) :
             /\ batch' = InboundRecord(batch, ext, out)
             /\ pbx' = PbxAfterRoutes(pbx, SimDid(ext), stored)
  /\ UNCHANGED <<ssh, sess, pt, nf, tok, mut, dev, goip>>

\* The summary; `if ok:` apply_config and then the GOIP slots.
add_inbound_cmd_finish ==
  /\ batch.cmd = "add_inbound" /\ batch.pc = "loop" /\ batch.i = Len(batch.todo)
  /\ \/ /\ batch.ok = <<>>
        /\ batch' = [batch EXCEPT !.pc = "done", !.summary = TRUE]
        /\ dev' = dev
     \/ /\ batch.ok # <<>>
        /\ \E out \in {"ok", "failed"}, connected \in BOOLEAN :
           \E done \in IF connected THEN SUBSET SlotsOf(batch.ok) ELSE {{}} :
           \E stored \in ToggleStores(batch, connected, done) :
             /\ batch' = [GoipReconciled(Applied(batch, out), connected, done)
                            EXCEPT !.pc = "done", !.summary = TRUE]
             /\ dev' = DevAfterToggles(dev, stored, TRUE)
  /\ UNCHANGED <<ssh, sess, pt, nf, tok, mut, goip, pbx>>

HasRoute(dids, ext) ==
  SimDid(ext) \in dids \/ PlainDid(ext) \in dids

\* okish -> ok.append, else failed.append; except Exception: failed.append
DelInboundRecord(b, ext, out) ==
  IF out = "okish"
  THEN [Logged(b, "delete_inbound_route", ext, out) EXCEPT
          !.ok = Append(@, ext), !.i = @ + 1]
  ELSE [Logged(b, "delete_inbound_route", ext, out) EXCEPT
          !.failed = Append(@, ext), !.i = @ + 1]

del_inbound_cmd_start ==
  /\ batch.cmd = "del_inbound" /\ batch.pc = "start"
  /\ \/ \* list_inbound_routes raises
        batch' = [batch EXCEPT !.pc = "aborted", !.error = "fetch"]
     \/ LET todo == SelectSeq(batch.requested, LAMBDA x : HasRoute(pbx.routes, x))
            missing == SelectSeq(batch.requested, LAMBDA x : ~HasRoute(pbx.routes, x))
        IN
        batch' = [batch EXCEPT
                    !.dids = pbx.routes, !.todo = todo, !.missing = missing,
                    \* if not todo: reply and return
                    !.pc = IF Len(todo) = 0 THEN "done" ELSE "loop",
                    !.summary = Len(todo) = 0]
  /\ UNCHANGED <<ssh, sess, pt, nf, tok, mut, dev, goip, pbx>>

del_inbound_cmd_item ==
  LET
    \* The route a target resolves to: route_by_did.get("_sim<ext>") or .get("<ext>")
    RouteOf(dids, ext) ==
      IF SimDid(ext) \in dids THEN SimDid(ext) ELSE PlainDid(ext)
  IN
  /\ batch.cmd = "del_inbound" /\ batch.pc = "loop" /\ batch.i < Len(batch.todo)
  /\ \E out \in {"okish", "not_okish", "error", "auth"} :
       LET ext == batch.todo[batch.i + 1] IN
       /\ batch' = DelInboundRecord(batch, ext, out)
       /\ pbx' = IF out = "okish"
                 THEN [pbx EXCEPT !.routes = @ \ {RouteOf(batch.dids, ext)}]
                 ELSE pbx
  /\ UNCHANGED <<ssh, sess, pt, nf, tok, mut, dev, goip>>

\* apply_config, `if ok:` the GOIP slots, then the summary.
del_inbound_cmd_finish ==
  /\ batch.cmd = "del_inbound" /\ batch.pc = "loop" /\ batch.i = Len(batch.todo)
  /\ \E out \in {"ok", "failed"} :
       \/ /\ batch.ok = <<>>
          /\ batch' = [Applied(batch, out) EXCEPT !.pc = "done", !.summary = TRUE]
          /\ dev' = dev
       \/ /\ batch.ok # <<>>
          /\ \E connected \in BOOLEAN :
             \E done \in IF connected THEN SUBSET SlotsOf(batch.ok) ELSE {{}} :
             \E stored \in ToggleStores(batch, connected, done) :
               /\ batch' = [GoipReconciled(Applied(batch, out), connected, done)
                              EXCEPT !.pc = "done", !.summary = TRUE]
               /\ dev' = DevAfterToggles(dev, stored, FALSE)
  /\ UNCHANGED <<ssh, sess, pt, nf, tok, mut, goip, pbx>>

\* ---- add_inbound_cmd and del_inbound_cmd, one command after the other ----
\* The commands a chat sends in a row: at most InbMaxRuns.
InbMaxRuns ==
  2

\* Their extensions: two numbers of one equipment and the number of the next
\* equipment that maps to the line of the first (n % 100).
InbExts ==
  {BExtLow, BExtLow + 1, BExtLow + 100}

InbTargetLists ==
  {<<e>> : e \in InbExts} \cup {<<BExtLow, BExtLow + 100>>}

\* Every backend and device call of the command b succeeded, and every answer
\* arrived.
CallsSucceeded(b) ==
  /\ b.error = "none" /\ b.failed = <<>>
  /\ b.apply_status \in {"none", "ok"}
  /\ b.goip \in {"none", "noslots", "ran"} /\ b.goip_errs = {}
  /\ \A k \in 1..Len(b.calls) : b.calls[k].out \in {"ok", "okish"}
  /\ (b.cmd = "add_inbound" /\ b.pc = "done") => b.known = pbx.exts
  /\ pbx.twice = {}

\* The handler returned and the chat sends the next /add_inbound or
\* /del_inbound.
next_inbound_cmd ==
  /\ batch.cmd \in {"add_inbound", "del_inbound"}
  /\ batch.pc \in {"done", "aborted"}
  /\ batch.run < InbMaxRuns
  /\ \E cmd \in {"add_inbound", "del_inbound"}, req \in InbTargetLists :
       batch' = [BNew(cmd, req, 0) EXCEPT
                   !.run = batch.run + 1,
                   !.clean = batch.clean /\ CallsSucceeded(batch),
                   !.prev = [cmd |-> batch.cmd, requested |-> batch.requested,
                             ok |-> batch.ok, failed |-> batch.failed,
                             routes |-> pbx.routes, done |-> batch.pc = "done"]]
  /\ UNCHANGED <<ssh, sess, pt, nf, tok, mut, dev, goip, pbx>>

\* ---- set_secret_cmd ------------------------------------------------------
\* ssh = s.get("ssh"); if not ssh: reply and return
set_secret_cmd_start ==
  /\ batch.cmd = "set_secret" /\ batch.pc = "start"
  /\ \/ batch' = [batch EXCEPT !.pc = "done", !.error = "nossh"]
     \/ batch' = [batch EXCEPT !.pc = "loop", !.todo = batch.requested]
  /\ UNCHANGED <<ssh, sess, pt, nf, tok, mut, dev, goip, pbx>>

\* try: set_extension_chansip_secret_via_ssh(do_reload=False); ok.append
\* except Exception: failed.append
set_secret_cmd_item ==
  /\ batch.cmd = "set_secret" /\ batch.pc = "loop" /\ batch.i < Len(batch.todo)
  /\ \E out \in {"ok", "error"} :
       LET ext == batch.todo[batch.i + 1]
           b == Logged(batch, "set_secret", ext, out) IN
       batch' = IF out = "ok"
                THEN [b EXCEPT !.ok = Append(@, ext), !.i = @ + 1]
                ELSE [b EXCEPT !.failed = Append(@, ext), !.i = @ + 1]
  /\ UNCHANGED <<ssh, sess, pt, nf, tok, mut, dev, goip, pbx>>

\* The single reload after the loop; when it raises, the outer except clause
\* reports the error in place of the summary.
set_secret_cmd_finish ==
  /\ batch.cmd = "set_secret" /\ batch.pc = "loop" /\ batch.i = Len(batch.todo)
  /\ \/ batch' = [Applied(batch, "ok") EXCEPT !.pc = "done", !.summary = TRUE]
     \/ batch' = [Applied(batch, "failed") EXCEPT !.pc = "aborted", !.error = "reload"]
  /\ UNCHANGED <<ssh, sess, pt, nf, tok, mut, dev, goip, pbx>>

\* ---- the command and the PBX it runs against ------------------------------
\* parse_targets output: ascending, without duplicates.
TargetLists ==
  {SortedSeq(S) : S \in (SUBSET BExts) \ {{}}}

RouteSets ==
  {UNION {r[e] : e \in BExts} :
     r \in [BExts -> {{}} \cup {{SimDid(e)} : e \in BExts}
                          \cup {{PlainDid(e)} : e \in BExts}]}

(***************************************************************************)
(* The chat session: SESS[chat_id], connect_cmd, reconnect_cmd and the     *)
(* commands that build their client with fb_from_session                   *)
(***************************************************************************)
\* The clock of the session runs over 0..SessMaxNow (whole seconds).
SessMaxNow ==
  6

NoToken ==
  [token |-> None, exp |-> 0]

SessIdle ==
  [pc |-> "idle"]

\* The token endpoint's answers that matter to a session: a failure, or a token
\* with one of the lifetimes.
SessResponses ==
  {r \in TokResponses : r.kind = "http" \/ (r.kind = "ok" /\ r.exp_kind = "int")}

sess_clock_tick ==
  /\ sess.pc = "ready" /\ sess.now < SessMaxNow
  /\ sess' = [sess EXCEPT !.now = @ + 1]
  /\ UNCHANGED <<ssh, nf, tok, mut, dev, goip, pbx, batch, pt>>

\* The ghost of a command: what it found in the session, what its client did.
SessLogged(se, op, res) ==
  [se EXCEPT !.last = [op |-> op, at |-> se.now, calls |-> res.calls,
                       outcome |-> res.outcome, known |-> se.refreshed],
             !.refreshed = IF res.outcome = "refreshed"
                           THEN [token |-> res.token, exp |-> res.exp] ELSE @]

\* A new FreePBX (token None), ensure_token, and on success token and
\* token_exp are stored in the session.
SessConnect(se, op, r) ==
  LET res == EnsureTokenResult(None, 0, se.now, r) IN
  IF res.outcome = "refreshed"
  THEN [SessLogged(se, op, res) EXCEPT
          !.connected = TRUE, !.token = res.token, !.exp = res.exp]
  ELSE SessLogged(se, op, res)

\* The rest of the try block of connect_cmd and connect_profile_by_key, which
\* follows SESS[chat_id] = sess and __connected = True: the profiles (connect_cmd
\* only) and fb.fetch_all_extensions(), then the replies.  listed: they returned.
\* An exception of ensure_token or of these calls reaches the one except clause,
\* which replies with the connection error.  before: the session store when the
\* command arrived.
ConnectReplied(se, stored, listed) ==
  [stored EXCEPT
     !.last = [op |-> stored.last.op, at |-> stored.last.at,
               calls |-> stored.last.calls, outcome |-> stored.last.outcome,
               known |-> stored.last.known,
               reply |-> IF stored.last.outcome = "refreshed" /\ listed
                         THEN "connected" ELSE "connect_error",
               before |-> [connected |-> se.connected, token |-> se.token,
                           exp |-> se.exp]]]

connect_cmd ==
  /\ sess.pc = "ready"
  /\ \E r \in SessResponses, listed \in BOOLEAN :
       sess' = ConnectReplied(sess, SessConnect(sess, "connect", r), listed)
  /\ UNCHANGED <<ssh, nf, tok, mut, dev, goip, pbx, batch, pt>>

\* A preset is chosen in the menu; the profile exists.
connect_profile_by_key ==
  /\ sess.pc = "ready"
  /\ \E r \in SessResponses, listed \in BOOLEAN :
       sess' = ConnectReplied(sess, SessConnect(sess, "preset", r), listed)
  /\ UNCHANGED <<ssh, nf, tok, mut, dev, goip, pbx, batch, pt>>

\* if not await _ensure_connected(u): return
reconnect_cmd ==
  /\ sess.pc = "ready" /\ sess.connected
  /\ \E r \in SessResponses : sess' = SessConnect(sess, "reconnect", r)
  /\ UNCHANGED <<ssh, nf, tok, mut, dev, goip, pbx, batch, pt>>

\* Any other command: fb_from_session copies token and token_exp into a new
\* FreePBX, the command's first gql calls ensure_token on it, and the handler
\* returns; the session is not written.
session_cmd ==
  /\ sess.pc = "ready" /\ sess.connected
  /\ \E r \in SessResponses :
       LET res == EnsureTokenResult(sess.token, sess.exp, sess.now, r) IN
       sess' = SessLogged(sess, "command", res)
  /\ UNCHANGED <<ssh, nf, tok, mut, dev, goip, pbx, batch, pt>>

(***************************************************************************)
(* TargetExpander: parse_targets and _parse_range                          *)
(***************************************************************************)
\* The numbers the tokens are written from: PTLow .. PTLow + PTSpan - 1.
PTLow ==
  401
PTSpan ==
  3
\* The longest input, in tokens.
PTMaxTokens ==
  2

\* A number written canonically and with a leading zero.
PTSpellings ==
  UNION {{ToStr(n), <<0>> \o ToStr(n)} : n \in PTLow..(PTLow + PTSpan - 1)}

\* A token without "-" and a token "a-b" (b written canonically).
PTTokens ==
  {[kind |-> "num", a |-> a, b |-> a] : a \in PTSpellings}
    \cup {[kind |-> "range", a |-> a, b |-> ToStr(n)] :
            a \in PTSpellings, n \in PTLow..(PTLow + PTSpan - 1)}

\* sorted(S, key=int): every order of S that ascends by int(x); strings of equal
\* value come in the set's iteration order.
RECURSIVE SortedByInt(_)
SortedByInt(S) ==
  IF S = {} THEN {<<>>}
  ELSE IF \A x \in S, y \in S : ToInt(x) = ToInt(y) => x = y
  THEN \* no two strings of equal value: the one ascending order
       LET key == [x \in S |-> ToInt(x)] IN
       {[k \in 1..Cardinality(S) |->
           CHOOSE x \in S : Cardinality({y \in S : key[y] < key[x]}) = k - 1]}
  ELSE LET least == {x \in S : \A y \in S : ToInt(x) <= ToInt(y)} IN
       UNION {{<<x>> \o q : q \in SortedByInt(S \ {x})} : x \in least}

\* parse_targets(s): the results it can return for the tokens of s
parse_targets(tokens) ==
  LET
    \* for n in range(int(a), int(b) + 1): out.append(str(n)) / out.append(tok)
    Expand(tk) ==
      IF tk.kind = "range"
      THEN {ToStr(n) : n \in ToInt(tk.a)..ToInt(tk.b)}
      ELSE {tk.a}
  IN
  SortedByInt(UNION {Expand(tokens[k]) : k \in 1..Len(tokens)})

\* _parse_range(s) for one token
parse_range(tk) ==
  LET
    \* str(i).zfill(w)
    ZFill(str, w) ==
      [k \in 1..(IF Len(str) >= w THEN Len(str) ELSE w) |->
         IF Len(str) >= w THEN str[k]
         ELSE IF k <= w - Len(str) THEN 0 ELSE str[k - (w - Len(str))]]
  IN
  IF tk.kind = "range"
  THEN LET w == IF Len(tk.a) >= Len(tk.b) THEN Len(tk.a) ELSE Len(tk.b)
           ia == IF ToInt(tk.a) > ToInt(tk.b) THEN ToInt(tk.b) ELSE ToInt(tk.a)
           ib == IF ToInt(tk.a) > ToInt(tk.b) THEN ToInt(tk.a) ELSE ToInt(tk.b) IN
       [k \in 1..(ib - ia + 1) |-> ZFill(ToStr(ia + k - 1), w)]
  ELSE <<tk.a>>

PTIdle ==
  [pc |-> "idle"]

\* parse_targets returns.
parse_targets_return ==
  /\ pt.pc = "called"
  /\ \E res \in parse_targets(pt.tokens) :
       pt' = [pt EXCEPT !.pc = "done", !.targets = res]
  /\ UNCHANGED <<ssh, nf, tok, mut, dev, goip, pbx, batch, sess>>

\* _parse_range returns for the first token of the input.
parse_range_return ==
  /\ pt.rpc = "called"
  /\ pt' = [pt EXCEPT !.rpc = "done", !.ranges = parse_range(pt.tokens[1])]
  /\ UNCHANGED <<ssh, nf, tok, mut, dev, goip, pbx, batch, sess>>

(***************************************************************************)
(* EquipmentRange: the per-equipment commands (del_eq_cmd, the menu's      *)
(* in.add.eq route) turn an equipment code into one range argument, which  *)
(* del_cmd / add_inbound_cmd expand with parse_targets.                    *)
(***************************************************************************)
\* Equipment codes the commands are called with: 1 .. EqMaxCode.
EqMaxCode ==
  17

\* end = start + 99
EqLast ==
  99

\* start = equip_start(eq); end = start + 99; args = [f"{start}-{end}"]
equip_args(eq) ==
  LET start == equip_start(eq)
      end == start + EqLast IN
  <<[kind |-> "range", a |-> ToStr(start), b |-> ToStr(end)]>>

\* /del_eq <eq>: c.args becomes the range and del_cmd parses it.
del_eq_cmd ==
  /\ pt.pc = "eq" /\ pt.caller = "del_eq_cmd"
  /\ pt' = [pt EXCEPT !.pc = "called", !.tokens = equip_args(pt.eq)]
  /\ UNCHANGED <<ssh, nf, tok, mut, dev, goip, pbx, batch, sess>>

\* menu route in.add.eq.<eq>: context.args becomes the range and
\* add_inbound_cmd parses it.
menu_in_add_eq ==
  /\ pt.pc = "eq" /\ pt.caller = "in.add.eq"
  /\ pt' = [pt EXCEPT !.pc = "called", !.tokens = equip_args(pt.eq)]
  /\ UNCHANGED <<ssh, nf, tok, mut, dev, goip, pbx, batch, sess>>

(***************************************************************************)
(* RemoteShell: core/asterisk.py.  _ssh_run sends one command to the PBX   *)
(* host; the functions built on it send a fixed sequence of commands with  *)
(* their arguments written into the command text.  Text is a sequence of   *)
(* one-character strings.                                                  *)
(***************************************************************************)
\* The longest argument text.
SshMaxLen ==
  1

SshStrings ==
  LET
    \* A letter, a digit, a character of the secret class, and the characters that
    \* end a literal: quote, backslash, double quote.
    SshChars ==
      {"a", "7", "@", "'", "\\", "\""}
  IN
  UNION {[1..n -> SshChars] : n \in 0..SshMaxLen}

\* What a command that was sent came back with; conn = FALSE: the connection
\* or the channel failed and paramiko raised.
SshReplies ==
  [conn : {TRUE}, exit : {0, 1}, out : {<<>>, <<"x">>}, err : {<<>>, <<"e">>}]
    \cup {[conn |-> FALSE, exit |-> 1, out |-> <<>>, err |-> <<>>]}

\* if err and not out: raise SSHExecError(...); return out
ssh_run(r) ==
  IF ~r.conn \/ (r.err # <<>> /\ r.out = <<>>)
  THEN [raised |-> TRUE, out |-> <<>>]
  ELSE [raised |-> FALSE, out |-> r.out]

\* val.replace(ch, by)
RECURSIVE Replace(_, _, _)
Replace(val, ch, by) ==
  IF val = <<>> THEN <<>>
  ELSE (IF Head(val) = ch THEN by ELSE <<Head(val)>>) \o Replace(Tail(val), ch, by)

\* val.replace("\\", "\\\\").replace("'", "\\'")
sql_escape(val) ==
  Replace(Replace(val, "\\", <<"\\", "\\">>), "'", <<"\\", "'">>)

\* The characters of SshChars in the class [A-Za-z0-9._\-@].
SecretClass ==
  {"a", "7", "@"}

\* The pattern with * for +.
SecretAllowedOrEmpty(s) ==
  \A k \in 1..Len(s) : s[k] \in SecretClass

\* re.fullmatch(r"[A-Za-z0-9._\-@]+", new_secret)
SecretAllowed(s) ==
  Len(s) > 0 /\ \A k \in 1..Len(s) : s[k] \in SecretClass

\* Text written between the quotes of a MySQL string literal '...': the
\* literal ends at the quote the command wrote after it.
RECURSIVE SqlLiteralKept(_)
SqlLiteralKept(text) ==
  IF text = <<>> THEN TRUE
  ELSE IF Head(text) = "\\" THEN Len(text) >= 2 /\ SqlLiteralKept(Tail(Tail(text)))
  ELSE IF Head(text) = "'"
       THEN Len(text) >= 2 /\ text[2] = "'" /\ SqlLiteralKept(Tail(Tail(text)))
  ELSE SqlLiteralKept(Tail(text))

\* Text written between the double quotes of a shell word "...".
RECURSIVE ShellQuotedKept(_)
ShellQuotedKept(text) ==
  IF text = <<>> THEN TRUE
  ELSE IF Head(text) = "\\" THEN Len(text) >= 2 /\ ShellQuotedKept(Tail(Tail(text)))
  ELSE IF Head(text) = "\"" THEN FALSE
  ELSE ShellQuotedKept(Tail(text))

\* The commands a function sends, in order.
SshSteps(fn, do_reload) ==
  CASE fn = "fetch_endpoint_raw" -> <<"show">>
    [] fn = "set_incoming_trunk_sip_server" ->
         <<"find_id", "cur", "upd", "reload", "new_val">>
    [] fn = "set_extension_chansip_secret" ->
         <<"read", "md5", "write">> \o (IF do_reload THEN <<"reload">> ELSE <<>>)
    [] OTHER -> <<"get_or_create", "patterns", "trunks", "reload">>

Frag(step, site, ctx, text) ==
  [step |-> step, site |-> site, ctx |-> ctx, text |-> text]

SshIdle ==
  [pc |-> "idle"]

\* A call before its first statement; stored0: the secret the sip table holds.
SshNew(fn, a1, a2, do_reload) ==
  LET
    SshNoReply ==
      [conn |-> FALSE, exit |-> 0, out |-> <<>>, err |-> <<>>]
  IN
  [pc |-> "call", fn |-> fn, a1 |-> a1, a2 |-> a2, do_reload |-> do_reload,
   steps |-> SshSteps(fn, do_reload), k |-> 0, cmds |-> <<>>, frags |-> <<>>,
   last |-> SshNoReply, ret |-> [raised |-> FALSE, out |-> <<>>],
   silent |-> FALSE, stored0 |-> <<"a">>, stored |-> <<"a">>]

\* One command of the sequence: it is written, sent with _ssh_run, and the
\* function goes on unless _ssh_run raised.
SshStep(s, r) ==
  LET
    \* The argument text each command is written with.  a1, a2: the arguments of
    \* the call (endpoint; extension and secret; route name and the text given for
    \* the patterns, the prepend range and the trunk names).  The handler calls
    \* set_incoming_trunk_sip_server_via_ssh with its own trunk name and an address
    \* taken from Asterisk's output, no argument of the user.
    SshFrags(fn, step, a1, a2) ==
      CASE fn = "fetch_endpoint_raw" ->
             <<Frag(step, "endpoint", "shell", a1)>>
        [] fn = "set_extension_chansip_secret" /\ step \in {"read", "md5"} ->
             <<Frag(step, "extension", "sql", a1)>>
        [] fn = "set_extension_chansip_secret" /\ step = "write" ->
             <<Frag(step, "extension", "sql", a1),
               Frag(step, "secret", "sql", sql_escape(a2))>>
        [] fn = "create_outbound_route_with_ranges" /\ step = "get_or_create" ->
             <<Frag(step, "route_name", "sql", sql_escape(a1))>>
        [] fn = "create_outbound_route_with_ranges" /\ step = "patterns" ->
             <<Frag(step, "pattern_first", "sql", sql_escape(a2)),
               Frag(step, "prepend", "sql", sql_escape(a2))>>
        [] fn = "create_outbound_route_with_ranges" /\ step = "trunks" ->
             <<Frag(step, "trunk_names", "sql", sql_escape(a2))>>
        [] OTHER -> <<>>
  IN
  LET step == s.steps[s.k + 1]
      res == ssh_run(r)
      sent == [s EXCEPT !.cmds = Append(@, step),
                        !.frags = @ \o SshFrags(s.fn, step, s.a1, s.a2),
                        !.last = r, !.ret = res,
                        !.stored = IF step = "write" /\ r.conn /\ r.exit = 0
                                   THEN s.a2 ELSE @]
      \* if not out: raise SSHExecError("no id for the trunk")
      stop == res.raised \/ (step = "find_id" /\ res.out = <<>>) IN
  IF stop THEN [sent EXCEPT !.pc = "raised"]
  ELSE [sent EXCEPT
          !.k = @ + 1,
          !.pc = IF s.k + 1 = Len(s.steps) THEN "done" ELSE "run",
          !.silent = @ \/ ((r.exit # 0 \/ r.err # <<>>) /\ r.out = <<>>
                            /\ s.k + 1 < Len(s.steps))]

fetch_endpoint_raw_via_ssh ==
  /\ ssh.fn = "fetch_endpoint_raw" /\ ssh.pc = "call"
  /\ \E r \in SshReplies : ssh' = SshStep(ssh, r)
  /\ UNCHANGED <<nf, tok, mut, dev, goip, pbx, batch, sess, pt>>

set_incoming_trunk_sip_server_via_ssh ==
  /\ ssh.fn = "set_incoming_trunk_sip_server" /\ ssh.pc \in {"call", "run"}
  /\ \E r \in SshReplies : ssh' = SshStep(ssh, r)
  /\ UNCHANGED <<nf, tok, mut, dev, goip, pbx, batch, sess, pt>>

\* The checks before the first command: the pattern, then str(int(extension)).
set_extension_chansip_secret_via_ssh_call ==
  LET
    \* int(extension) accepts the digit strings; str() writes the number.
    IsNumber(s) ==
      Len(s) > 0 /\ \A k \in 1..Len(s) : s[k] = "7"
  IN
  /\ ssh.fn = "set_extension_chansip_secret" /\ ssh.pc = "call"
  /\ ssh' = IF SecretAllowed(ssh.a2) /\ IsNumber(ssh.a1)
            THEN [ssh EXCEPT !.pc = "run"]
            ELSE [ssh EXCEPT !.pc = "raised", !.ret = [raised |-> TRUE, out |-> <<>>]]
  /\ UNCHANGED <<nf, tok, mut, dev, goip, pbx, batch, sess, pt>>

set_extension_chansip_secret_via_ssh_step ==
  /\ ssh.fn = "set_extension_chansip_secret" /\ ssh.pc = "run"
  /\ \E r \in SshReplies : ssh' = SshStep(ssh, r)
  /\ UNCHANGED <<nf, tok, mut, dev, goip, pbx, batch, sess, pt>>

create_outbound_route_with_ranges_via_ssh ==
  /\ ssh.fn = "create_outbound_route_with_ranges" /\ ssh.pc \in {"call", "run"}
  /\ \E r \in SshReplies : ssh' = SshStep(ssh, r)
  /\ UNCHANGED <<nf, tok, mut, dev, goip, pbx, batch, sess, pt>>

(***************************************************************************)
(* OutboundRoute: create_outbound_route_with_ranges_via_ssh, run again and *)
(* again against the tables outbound_routes, outbound_route_sequence,      *)
(* outbound_route_patterns and outbound_route_trunks.  Step 1 is one mysql *)
(* invocation of several statements.  A table is the sequence of its rows. *)
(***************************************************************************)
\* The calls of one behaviour.
RouteMaxRuns ==
  3

RouteNames ==
  {"r1", "r2"}

\* NULL, and LAST_INSERT_ID() of a connection that inserted nothing.
SqlNull ==
  0

\* SELECT route_id FROM outbound_routes WHERE BINARY name = BINARY @rname LIMIT 1
SqlSelectRid(db, rname) ==
  LET hits == {k \in 1..Len(db.routes) : db.routes[k].name = rname} IN
  IF hits = {} THEN SqlNull
  ELSE db.routes[CHOOSE k \in hits : \A j \in hits : k <= j].route_id

\* The INSERT without its WHERE @rid IS NULL.
SqlInsertRouteAlways(db, rname, rid) ==
  [db EXCEPT !.routes = Append(@, [route_id |-> db.next_id, name |-> rname]),
             !.next_id = @ + 1]

\* INSERT INTO outbound_routes (name) SELECT @rname FROM DUAL WHERE @rid IS NULL
SqlInsertRoute(db, rname, rid) ==
  IF rid = SqlNull
  THEN [db EXCEPT !.routes = Append(@, [route_id |-> db.next_id, name |-> rname]),
                  !.next_id = @ + 1]
  ELSE db

\* INSERT INTO outbound_route_sequence (route_id, seq)
\* SELECT @rid, COALESCE((SELECT MAX(seq)+1 ...), 0) WHERE NOT EXISTS (...)
SqlInsertSequence(db, rid) ==
  IF \E k \in 1..Len(db.seqs) : db.seqs[k].route_id = rid THEN db
  ELSE LET top == IF db.seqs = <<>> THEN 0
                  ELSE 1 + (CHOOSE m \in {db.seqs[k].seq : k \in 1..Len(db.seqs)} :
                              \A k \in 1..Len(db.seqs) : db.seqs[k].seq <= m) IN
       [db EXCEPT !.seqs = Append(@, [route_id |-> rid, seq |-> top])]

\* Step 1 of a call: the script runs up to `cut`; route_id is parsed from its
\* output, and a run that printed none raises.
create_outbound_route_get_or_create ==
  LET
    \* The statements of the script, and the statements that ran before the
    \* connection or the server failed: 0 (none) .. 3 (all, route_id printed).
    RouteCuts ==
      0..3
    \* sql_get_or_create, its first `cut` statements; rid: the route_id it prints.
    SqlGetOrCreate(db, rname, cut) ==
      LET rid0 == SqlSelectRid(db, rname)
          db1 == IF cut >= 1 THEN SqlInsertRoute(db, rname, rid0) ELSE db
          last_insert_id == IF db1.next_id # db.next_id THEN db.next_id ELSE SqlNull
          \* SET @rid := COALESCE(@rid, LAST_INSERT_ID())
          rid == IF rid0 # SqlNull THEN rid0 ELSE last_insert_id
          db2 == IF cut >= 2 THEN SqlInsertSequence(db1, rid) ELSE db1 IN
      [db |-> db2, rid |-> IF cut >= 3 THEN rid ELSE SqlNull]
  IN
  /\ ssh.pc = "ready" /\ ssh.runs < RouteMaxRuns
  /\ \E rname \in RouteNames, cut \in RouteCuts :
       LET res == SqlGetOrCreate(ssh.db, rname, cut) IN
       ssh' = [ssh EXCEPT
                 !.db = res.db, !.runs = @ + 1, !.name = rname,
                 !.log = Append(@, [name |-> rname, cut |-> cut, rid |-> res.rid]),
                 !.pc = IF res.rid = SqlNull THEN "ready" ELSE "patterns",
                 !.out = IF res.rid = SqlNull THEN "raised" ELSE "none"]
  /\ UNCHANGED <<nf, tok, mut, dev, goip, pbx, batch, sess, pt>>

\* The rows of step 2 for prepend_range "1" (nums = cids = ["1"]) and the default
\* patterns: one row with the plus sign and one without, match_pattern_prefix ''.
RouteValues(rid) ==
  <<[route_id |-> rid, match_pattern_pass |-> "X.", match_cid |-> "1",
     prepend_digits |-> "1+"],
    [route_id |-> rid, match_pattern_pass |-> "XXXX", match_cid |-> "1",
     prepend_digits |-> "1"]>>

\* trunk_names of the calls for a route name, as the trunkid the trunks table
\* has for them: one trunk for the first name, no trunk_names for the other.
RouteTrunkIds(rname) ==
  IF rname = "r1" THEN <<1>> ELSE <<>>

\* INSERT IGNORE INTO outbound_route_patterns (...) VALUES ...: a table with the
\* composite key over the five columns ("in some builds") drops a row equal to
\* a stored one; a table without it stores every row.
RECURSIVE SqlInsertIgnore(_, _, _)
SqlInsertIgnore(rows, values, keyed) ==
  IF values = <<>> THEN rows
  ELSE SqlInsertIgnore(IF keyed /\ \E k \in 1..Len(rows) : rows[k] = Head(values)
                       THEN rows
                       ELSE Append(rows, Head(values)),
                       Tail(values), keyed)

\* INSERT INTO outbound_route_trunks (route_id, trunk_id, seq)
\* SELECT <rid>, t.trunkid, FIELD(t.name, ...) - 1 FROM tmp_trunks t: no IGNORE and
\* no NOT EXISTS.  A keyed table answers a stored row with a duplicate-key error
\* and stores nothing; a table without key stores the rows again.
SqlInsertTrunks(rows, rid, ids, keyed) ==
  LET new == [k \in 1..Len(ids) |->
                [route_id |-> rid, trunk_id |-> ids[k], seq |-> k - 1]] IN
  IF keyed /\ \E k \in 1..Len(new), j \in 1..Len(rows) : rows[j] = new[k]
  THEN [rows |-> rows, err |-> TRUE]
  ELSE [rows |-> rows \o new, err |-> FALSE]

\* Steps 2 to 4: the patterns, the trunks (if trunk_names), fwconsole reload;
\* none writes outbound_routes or outbound_route_sequence.  A statement whose
\* connection failed may have been stored; an error leaves the function.
create_outbound_route_finish ==
  /\ ssh.pc = "patterns"
  /\ LET rid == ssh.log[Len(ssh.log)].rid
         ids == RouteTrunkIds(ssh.name)
         db2 == [ssh.db EXCEPT
                   !.patterns = SqlInsertIgnore(@, RouteValues(rid), ssh.db.keyed.patterns)]
         tr == SqlInsertTrunks(db2.trunks, rid, ids, ssh.db.keyed.trunks)
         db3 == [db2 EXCEPT !.trunks = tr.rows] IN
     \/ \E db \in {ssh.db, db2} :
          ssh' = [ssh EXCEPT !.db = db, !.pc = "ready", !.out = "patterns_failed"]
     \/ /\ ids # <<>>
        /\ \E db \in {db2, db3} :
             ssh' = [ssh EXCEPT !.db = db, !.pc = "ready", !.out = "trunks_failed"]
     \/ /\ ids = <<>> \/ ~tr.err
        /\ \E out \in {"ok", "reload_failed"} :
             ssh' = [ssh EXCEPT !.db = db3, !.pc = "ready", !.out = out]
  /\ UNCHANGED <<nf, tok, mut, dev, goip, pbx, batch, sess, pt>>

(***************************************************************************)
(* Specifications                                                          *)
(***************************************************************************)

SpecNF ==
  (/\ ssh = SshIdle
   \* The strings the existing list is drawn from: the canonical decimal form of
   \* every number of the window, and a zero-padded form of one of them.
   /\ (\E existing \in SUBSET ({ToStr(n) : n \in NFLow..(NFLow + NFSpan)} \cup {<<0>> \o ToStr(NFLow + 1)}),
          start \in NFLow..(NFLow + NFStartSpan),
          count \in 0..NFMaxCount :
         nf = [pc |-> "called", existing |-> existing, start |-> start, count |-> count,
               res |-> <<>>]) /\ tok = TokIdle /\ mut = MutIdle /\ dev = DevIdle /\ goip = GoipIdle
   /\ pbx = PbxIdle /\ batch = BatchIdle
   /\ sess = SessIdle /\ pt = PTIdle) /\ [][(next_free_return)]_vars

SpecTokInit ==
  /\ ssh = SshIdle
  \* FreePBX.__init__: token = None, token_exp = 0.0
  /\ (tok = TokIdle) /\ nf = NFIdle /\ mut = MutIdle /\ dev = DevIdle /\ goip = GoipIdle
  /\ pbx = PbxIdle /\ batch = BatchIdle
  /\ sess = SessIdle /\ pt = PTIdle

SpecTok ==
  SpecTokInit /\ [][(clock_tick \/ ensure_token)]_vars

SpecMut ==
  (/\ ssh = SshIdle
   /\ (\E op \in ({"delete_extension", "set_ext_password", "create_inbound_route"}) :
         mut = [op |-> op, pc |-> "NotTried", i |-> 0, tried |-> <<>>, reasons |-> <<>>,
                accepted |-> 0, raised |-> <<>>, faults |-> 0, exists_at |-> 0]) /\ nf = NFIdle /\ tok = TokIdle /\ dev = DevIdle /\ goip = GoipIdle
   /\ pbx = PbxIdle /\ batch = BatchIdle
   /\ sess = SessIdle /\ pt = PTIdle) /\ [][(MutStart \/ MutAccept \/ MutFail \/ MutExists)]_vars

SpecGoipInit ==
  /\ ssh = SshIdle
  /\ (\E shift \in 0..(Len(SlotPalette) - 1), t \in {"60", "30"}, m \in {"1", "0"} :
        dev = [slot |-> [j \in Slots |-> SlotPalette[((j + shift) % Len(SlotPalette)) + 1]],
               user_noinput_t |-> t, cid_fw_mode |-> m]) /\ goip = GoipIdle /\ nf = NFIdle /\ tok = TokIdle /\ mut = MutIdle
  /\ pbx = PbxIdle /\ batch = BatchIdle
  /\ sess = SessIdle /\ pt = PTIdle

SpecGoip ==
  SpecGoipInit /\ [][SpecGoipNext]_vars

SpecBatch ==
  (/\ ssh = SshIdle
   /\ (\/ \E cnt \in 1..BMaxCreate, exts \in SUBSET BExts :
            /\ batch = BNew("create", <<>>, cnt)
            /\ pbx = [exts |-> exts, names |-> exts, routes |-> {}, twice |-> {}]
       \/ \* /add a-b, or /add "0a a-b": parse_targets keeps both spellings of a
          \E a \in BExts, b \in BExts, exts \in SUBSET BExts,
             extra \in {{}, {BExtLow + 1}}, twice \in BOOLEAN :
            /\ a <= b
            /\ batch = BNew("add", (IF twice THEN <<a>> ELSE <<>>) \o SortedSeq(a..b), 0)
            /\ pbx = [exts |-> exts, names |-> IF exts = {} THEN {} ELSE exts \cup extra,
                      routes |-> {}, twice |-> {}]
       \/ \E cmd \in {"del", "del_all"}, req \in TargetLists, exts \in SUBSET BExts :
            /\ batch = BNew(cmd, IF cmd = "del" THEN req ELSE <<>>, 0)
            /\ pbx = [exts |-> exts, names |-> exts, routes |-> {}, twice |-> {}]
       \/ \E req \in TargetLists, exts \in SUBSET BExts, routes \in RouteSets :
            /\ batch = BNew("add_inbound", req, 0)
            /\ pbx = [exts |-> exts, names |-> exts, routes |-> routes, twice |-> {}]
       \/ \E req \in TargetLists, routes \in RouteSets :
            /\ batch = BNew("del_inbound", req, 0)
            /\ pbx = [exts |-> BExts, names |-> BExts, routes |-> routes, twice |-> {}]
       \/ \E req \in TargetLists :
            /\ batch = BNew("set_secret", req, 0)
            /\ pbx = [exts |-> BExts, names |-> BExts, routes |-> {}, twice |-> {}]) /\ nf = NFIdle /\ tok = TokIdle /\ mut = MutIdle /\ dev = DevIdle
   /\ goip = GoipIdle
   /\ sess = SessIdle /\ pt = PTIdle) /\ [][(\/ create_cmd_start \/ create_cmd_item \/ create_cmd_finish
                                             \/ add_cmd_start \/ add_cmd_item \/ add_cmd_finish
                                             \/ del_cmd_start \/ del_cmd_item \/ del_cmd_finish
                                             \/ del_all_cb_start \/ del_all_cb_item \/ del_all_cb_finish
                                             \/ add_inbound_cmd_start \/ add_inbound_cmd_item \/ add_inbound_cmd_finish
                                             \/ del_inbound_cmd_start \/ del_inbound_cmd_item \/ del_inbound_cmd_finish
                                             \/ set_secret_cmd_start \/ set_secret_cmd_item \/ set_secret_cmd_finish)]_vars

SpecGql ==
  SpecTokInit /\ [][(gql)]_vars

SpecSess ==
  (/\ ssh = SshIdle
   \* Before /connect: SESS holds nothing for the chat.
   /\ (sess = [pc |-> "ready", connected |-> FALSE, token |-> None, exp |-> 0, now |-> 0,
               refreshed |-> NoToken, last |-> ([op |-> "none"])]) /\ nf = NFIdle /\ tok = TokIdle /\ mut = MutIdle /\ dev = DevIdle
   /\ goip = GoipIdle /\ pbx = PbxIdle /\ batch = BatchIdle /\ pt = PTIdle) /\ [][(sess_clock_tick \/ connect_cmd \/ connect_profile_by_key
                                                                                     \/ reconnect_cmd \/ session_cmd)]_vars

SpecPT ==
  (/\ ssh = SshIdle
   /\ (\E tokens \in (UNION {[1..n -> PTTokens] : n \in 1..PTMaxTokens}) :
         pt = [pc |-> "called", tokens |-> tokens, targets |-> <<>>,
               rpc |-> "called", ranges |-> <<>>]) /\ nf = NFIdle /\ tok = TokIdle /\ mut = MutIdle /\ dev = DevIdle
   /\ goip = GoipIdle /\ pbx = PbxIdle /\ batch = BatchIdle /\ sess = SessIdle) /\ [][(parse_targets_return \/ parse_range_return)]_vars

SpecEq ==
  (/\ ssh = SshIdle
   /\ (\E eq \in 1..EqMaxCode, caller \in ({"del_eq_cmd", "in.add.eq"}) :
         pt = [pc |-> "eq", caller |-> caller, eq |-> eq, tokens |-> <<>>,
               targets |-> <<>>, rpc |-> "idle", ranges |-> <<>>]) /\ nf = NFIdle /\ tok = TokIdle /\ mut = MutIdle /\ dev = DevIdle
   /\ goip = GoipIdle /\ pbx = PbxIdle /\ batch = BatchIdle /\ sess = SessIdle) /\ [][(del_eq_cmd \/ menu_in_add_eq \/ parse_targets_return)]_vars

SpecSsh ==
  (/\ (\/ \E a1 \in SshStrings \ {<<>>} :
            ssh = SshNew("fetch_endpoint_raw", a1, <<>>, FALSE)
       \/ ssh = SshNew("set_incoming_trunk_sip_server", <<>>, <<>>, TRUE)
       \/ \E a1 \in SshStrings, a2 \in SshStrings, do_reload \in BOOLEAN :
            ssh = SshNew("set_extension_chansip_secret", a1, a2, do_reload)
       \/ \E a1 \in SshStrings \ {<<>>}, a2 \in SshStrings \ {<<>>} :
            ssh = SshNew("create_outbound_route_with_ranges", a1, a2, TRUE)) /\ nf = NFIdle /\ tok = TokIdle /\ mut = MutIdle /\ dev = DevIdle
   /\ goip = GoipIdle /\ pbx = PbxIdle /\ batch = BatchIdle /\ sess = SessIdle
   /\ pt = PTIdle) /\ [][(\/ fetch_endpoint_raw_via_ssh
                          \/ set_incoming_trunk_sip_server_via_ssh
                          \/ set_extension_chansip_secret_via_ssh_call
                          \/ set_extension_chansip_secret_via_ssh_step
                          \/ create_outbound_route_with_ranges_via_ssh)]_vars

SpecRoute ==
  \* The tables before the first call: empty, or holding one route with its
  \* sequence row.
  \* keyed: whether the build's pattern and trunk tables have their composite
  \* key.
  (/\ (\E rows \in {<<>>} \cup {<<[route_id |-> 1, name |-> n]>> : n \in RouteNames \cup {"r0"}},
          kp \in BOOLEAN, kt \in BOOLEAN :
         ssh = [pc |-> "ready", name |-> "none", runs |-> 0,
                db |-> [routes |-> rows,
                        seqs |-> IF rows = <<>> THEN <<>> ELSE <<[route_id |-> 1, seq |-> 0]>>,
                        next_id |-> Len(rows) + 1,
                        patterns |-> <<>>, trunks |-> <<>>,
                        keyed |-> [patterns |-> kp, trunks |-> kt]],
                log |-> <<>>, out |-> "none"]) /\ nf = NFIdle /\ tok = TokIdle /\ mut = MutIdle /\ dev = DevIdle
   /\ goip = GoipIdle /\ pbx = PbxIdle /\ batch = BatchIdle /\ sess = SessIdle
   /\ pt = PTIdle) /\ [][(create_outbound_route_get_or_create \/ create_outbound_route_finish)]_vars

SpecGoipLive ==
  \* The device with the device-wide fields at the values the form posts: every
  \* step of a call is one HTTP exchange that ends (timeout=(5, 25)), hence the
  \* weak fairness of the steps.
  (/\ ssh = SshIdle
   /\ \E shift \in 0..(Len(SlotPalette) - 1) :
        dev = [slot |-> [j \in Slots |->
                          SlotPalette[((j + shift) % Len(SlotPalette)) + 1]],
               user_noinput_t |-> "60", cid_fw_mode |-> "1"]
   /\ goip = GoipIdle /\ nf = NFIdle /\ tok = TokIdle /\ mut = MutIdle
   /\ pbx = PbxIdle /\ batch = BatchIdle
   /\ sess = SessIdle /\ pt = PTIdle) /\ [][SpecGoipNext]_vars /\ WF_vars(SpecGoipNext)

SpecGoipTwice ==
  SpecGoipInit /\ [][(\/ set_incoming_enabled_steady(1) \/ set_incoming_enabled_again(1)
                      \/ set_incoming_enabled_get(1) \/ set_incoming_enabled_post(1)
                      \/ set_incoming_enabled_verify(1))]_vars

SpecGoipAuth ==
  SpecGoipInit /\ [][(\/ set_incoming_enabled_call(1) \/ set_incoming_enabled_get(1)
                      \/ set_incoming_enabled_post(1) \/ set_incoming_enabled_verify(1)
                      \/ check_status_call(1) \/ check_status_get(1))]_vars

\* Two callers of one device; their steps interleave freely.
SpecGoipRace ==
  SpecGoipInit /\ [][\E c \in GoipCallers :
                       \/ set_incoming_enabled_concurrent(c)
                       \/ set_incoming_enabled_get(c)
                       \/ set_incoming_enabled_post(c)
                       \/ set_incoming_enabled_verify(c)]_vars

\* A chat that sends /add_inbound and /del_inbound commands to a PBX without
\* routes and a device with every line off.
SpecInbound ==
  (/\ ssh = SshIdle
   /\ \E cmd \in {"add_inbound", "del_inbound"}, req \in InbTargetLists,
         exts \in {InbExts, InbExts \ {BExtLow + 1}} :
        /\ batch = BNew(cmd, req, 0)
        /\ pbx = [exts |-> exts, names |-> exts, routes |-> {}, twice |-> {}]
   /\ dev = DevIdle /\ goip = GoipIdle /\ nf = NFIdle /\ tok = TokIdle
   /\ mut = MutIdle /\ sess = SessIdle /\ pt = PTIdle)
  /\ [][(\/ add_inbound_cmd_start \/ add_inbound_cmd_item \/ add_inbound_cmd_finish
         \/ del_inbound_cmd_start \/ del_inbound_cmd_item \/ del_inbound_cmd_finish
         \/ next_inbound_cmd)]_vars

\* /create <eq> <cnt> on a PBX where the numbers of the equipment are taken up
\* to the last three, some of which are free.
SpecCreate ==
  (/\ ssh = SshIdle
   /\ \E cnt \in 1..BMaxCreate,
         free \in SUBSET ((equip_start(BExtLow \div 100) + EqLast - 2)
                            ..(equip_start(BExtLow \div 100) + EqLast)) :
        LET start == equip_start(BExtLow \div 100)
            exts == (start..(start + EqLast)) \ free IN
        /\ batch = BNew("create", <<>>, cnt)
        /\ pbx = [exts |-> exts, names |-> exts, routes |-> {}, twice |-> {}]
   /\ dev = DevIdle /\ goip = GoipIdle /\ nf = NFIdle /\ tok = TokIdle
   /\ mut = MutIdle /\ sess = SessIdle /\ pt = PTIdle)
  /\ [][(create_cmd_start \/ create_cmd_item \/ create_cmd_finish)]_vars

(***************************************************************************)
(* Claims                                                                  *)
(***************************************************************************)
BatchEnded ==
  batch.pc \in {"done", "aborted"}

\* Some item of the batch succeeded on the backend: its last backend call
\* returned (for create and add, set_ext_password after create_one).
ItemSucceeded ==
  \E k \in 1..Len(batch.calls) :
    /\ batch.calls[k].op # "create_one"
    /\ batch.calls[k].out \in {"ok", "okish"}

\* C1: in every batch command, once at least one item succeeded the
\* configuration apply/reload is invoked exactly once, after the last item and
\* never between items, also when a later item of the batch fails.
C1_ApplyOnceAfterLastItem ==
  /\ \A k \in 1..Len(batch.apply_at) : batch.apply_at[k] = Len(batch.todo)
  /\ batch.applies <= 1
  /\ (BatchEnded /\ ItemSucceeded) => batch.applies = 1

\* C2: an item whose operation raises an error other than AlreadyExists is
\* recorded as failed for that item only, the error does not leave the batch
\* loop, and every remaining target is still processed.
C2_NoFailFast ==
  /\ batch.error # "item"
  /\ \A k \in 1..Len(batch.calls) :
       batch.calls[k].out \in {"error", "not_okish"}
         => batch.calls[k].ext \in Range(batch.failed)
  /\ (BatchEnded /\ batch.error \notin {"fetch", "nossh"})
       => batch.i = Len(batch.todo)

\* C3: delete_extension tries its variants in list order, each at most once;
\* when the k-th is the first accepted, exactly k requests were made, the
\* operation is in Success and nothing after k is tried; it is in AllFailed only
\* after all of them failed.
C3_InOrderFirstAccepted ==
  mut.op = "delete_extension" =>
    /\ mut.pc \in {"NotTried", "Trying", "Success", "AllFailed"}
    /\ \A j \in 1..Len(mut.tried) : mut.tried[j] = j
    /\ Len(mut.tried) <= Len(DeleteVariants)
    /\ (mut.pc = "NotTried") = (mut.tried = <<>>)
    /\ mut.pc = "Trying" =>
         mut.i = Len(mut.tried) /\ Len(mut.reasons) = mut.i - 1 /\ mut.accepted = 0
    /\ mut.pc = "Success" =>
         mut.accepted = Len(mut.tried) /\ Len(mut.reasons) = mut.accepted - 1
    /\ mut.pc = "AllFailed" =>
         /\ Len(mut.tried) = Len(DeleteVariants)
         /\ Len(mut.reasons) = Len(DeleteVariants)
         /\ mut.accepted = 0

C3_Witness ==
  mut.op = "delete_extension" /\ mut.pc = "Success" /\ mut.accepted = 3

\* C4: when no variant is accepted, every variant was attempted exactly once
\* and the raised error carries the failure reason of every attempt.
C4_AggregateListsEveryReason ==
  mut.pc = "AllFailed" =>
    /\ mut.tried = [j \in 1..Len(MutVariants(mut.op)) |-> j]
    /\ mut.raised = mut.reasons

C6_SuccessOnlyIfVerified ==
  \A c \in GoipCallers :
    goip[c].pc = "done" =>
      /\ goip[c].result.ok =>
           /\ goip[c].posts > 0
           /\ goip[c].verified = "match"
           /\ (dev.slot[goip[c].slot].fw = "on") = goip[c].enabled
      /\ goip[c].verified \in {"mismatch", "http", "net"} => ~goip[c].result.ok

C6_Witness ==
  /\ goip[1].pc = "done" /\ goip[1].result.ok /\ goip[1].enabled
  /\ goip[1].dev0.slot[goip[1].slot].fw = "off"
  /\ dev.slot[goip[1].slot].fw = "on"

\* C7: ensure_token makes no network call when a token is cached whose expiry
\* is more than 30 seconds ahead; otherwise it makes exactly one exchange, and
\* a token the exchange returns is cached with expiry = now + expires_in.
C7_MarginAndSingleExchange ==
  tok.last.op = "ensure_token" =>
    LET l == tok.last IN
    IF l.token_before # None /\ l.exp_before - l.at > TokMargin
    THEN l.calls = 0 /\ tok.token = l.token_before /\ tok.exp = l.exp_before
    ELSE /\ l.calls = 1
         /\ (l.resp.kind = "ok" /\ l.resp.has_token /\ l.resp.exp_kind = "int") =>
              /\ tok.token # None /\ tok.token # l.token_before
              /\ tok.exp = l.at + l.resp.expires_in

\* A call answered from the cache with 31 seconds left, after a refresh.
C7_Witness ==
  /\ tok.last.op = "ensure_token" /\ tok.last.calls = 0
  /\ tok.last.exp_before - tok.last.at = TokMargin + 1
  /\ tok.token # None

\* C8: next_free returns exactly count numbers, canonical decimal strings in
\* strictly ascending order, all >= start, none in existing, and no free number
\* >= start below the largest returned is left out.
C8_FirstCountFree ==
  nf.pc = "done" =>
    LET n == [k \in 1..Len(nf.res) |-> ToInt(nf.res[k])]
        used == {ToInt(e) : e \in nf.existing} IN
    /\ Len(nf.res) = nf.count
    /\ \A k \in 1..Len(n) :
         /\ nf.res[k] = ToStr(n[k])
         /\ n[k] >= nf.start
         /\ nf.res[k] \notin nf.existing
         /\ n[k] \notin used
    /\ \A k \in 1..(Len(n) - 1) : n[k] < n[k + 1]
    /\ Len(n) > 0 =>
         \A m \in nf.start..n[Len(n)] :
           m \notin used => \E k \in 1..Len(n) : n[k] = m

\* existing {402, 405}, start 401, count 10 gives 401, 403, 404, 406..412.
C8_Witness ==
  /\ nf.pc = "done"
  /\ nf.existing = {ToStr(402), ToStr(405)} /\ nf.start = 401 /\ nf.count = 10
  /\ nf.res = << ToStr(401), ToStr(403), ToStr(404), ToStr(406), ToStr(407),
                 ToStr(408), ToStr(409), ToStr(410), ToStr(411), ToStr(412) >>

\* The case of C9: add_inbound called create_inbound_route on every one of its
\* N targets, which raised AlreadyExists on exactly one and returned on the rest.
C9_Case ==
  /\ batch.cmd = "add_inbound" /\ batch.pc = "done"
  /\ Len(batch.calls) = Len(batch.requested)
  /\ \A k \in 1..Len(batch.calls) : batch.calls[k].ext = batch.requested[k]
  /\ \E i \in 1..Len(batch.calls) :
       /\ batch.calls[i].out = "exists"
       /\ \A k \in 1..Len(batch.calls) : k # i => batch.calls[k].out = "ok"

C9_Lists ==
  LET i == CHOOSE k \in 1..Len(batch.calls) : batch.calls[k].out = "exists"
      ext == batch.requested[i] IN
  /\ batch.skipped = <<ext>>
  /\ batch.ok = SelectSeq(batch.requested, LAMBDA x : x # ext)
  /\ batch.failed = <<>>
  /\ batch.missing = <<>>

\* C9 as amended: one skipped entry (item i), N-1 succeeded entries, no failed
\* entry, and apply_config invoked exactly once when N >= 2 and not at all when
\* N = 1.
C9_OneSkippedRestApplied ==
  C9_Case =>
    /\ C9_Lists
    /\ batch.applies = (IF Len(batch.requested) >= 2 THEN 1 ELSE 0)

\* C9 as stated: apply_config is invoked exactly once for every N.
C9_AppliedOnceForAnyN ==
  C9_Case => (C9_Lists /\ batch.applies = 1)

C9_Witness ==
  /\ C9_Case /\ Len(batch.requested) = 3
  /\ batch.calls[2].out = "exists" /\ batch.applies = 1

\* C10: at the end of a del, add_inbound or del_inbound batch every requested
\* target is in exactly one of the lists succeeded, skipped (exists), skipped
\* (missing), failed, and the lists hold nothing that was not requested.
C10_ListsPartitionTargets ==
  (batch.pc = "done" /\ batch.cmd \in {"del", "add_inbound", "del_inbound"}) =>
    LET all == batch.ok \o batch.skipped \o batch.missing \o batch.failed IN
    /\ \A t \in Range(batch.requested) :
         Cardinality({k \in 1..Len(all) : all[k] = t}) = 1
    /\ Range(all) \subseteq Range(batch.requested)

C10_Witness ==
  /\ batch.pc = "done" /\ batch.cmd = "del"
  /\ batch.ok # <<>> /\ batch.missing # <<>> /\ batch.failed # <<>>

\* The items of the batch whose backend call ended as one of `outs`, in order.
ItemsEnded(outs) ==
  SelectSeq(batch.todo,
            LAMBDA x : \E k \in 1..Len(batch.calls) :
                         batch.calls[k].ext = x /\ batch.calls[k].out \in outs)

\* C11: when the apply/reload after the item loop of del, del_all or set_secret
\* fails, the lists of succeeded and failed items are still the items' own
\* outcomes and the batch reports that summary, next to the apply failure.
C11_ApplyFailureKeepsSummary ==
  (/\ batch.pc \in {"done", "aborted"}
   /\ batch.cmd \in {"del", "del_all", "set_secret"}
   /\ batch.apply_status = "failed") =>
    /\ batch.summary
    /\ batch.ok = ItemsEnded({"ok"})
    /\ batch.failed = ItemsEnded({"error", "auth"})

\* C13: when no item of a batch succeeded, the configuration apply/reload is
\* not invoked.
C13_NoSuccessNoApply ==
  ~ItemSucceeded => batch.applies = 0

\* C14: in create_inbound_route a response signalling that the route exists
\* ends the operation as AlreadyExists: the attempt that met it is the last one
\* made, and no generic failure is raised in its place.
C14_AlreadyExistsIsFinal ==
  (mut.op = "create_inbound_route" /\ mut.exists_at # 0) =>
    /\ mut.pc = "AlreadyExists"
    /\ mut.i = mut.exists_at
    /\ mut.tried = [j \in 1..mut.exists_at |-> j]
    /\ Len(mut.reasons) = mut.exists_at - 1
    /\ mut.accepted = 0
    /\ mut.raised = <<[variant |-> mut.exists_at, kind |-> "exists"]>>

C14_Witness ==
  /\ mut.op = "create_inbound_route" /\ mut.pc = "AlreadyExists"
  /\ mut.exists_at = 1 /\ Len(candidates) > 1

\* C15: in delete_extension, set_ext_password and create_inbound_route an
\* attempt that fails with a transport error or a token failure is the last
\* attempt of the operation.
C15_FaultStopsVariants ==
  \A j \in 1..Len(mut.reasons) :
    mut.reasons[j].kind \in MutFaultKinds => mut.reasons[j].variant = Len(mut.tried)

\* C12: an item that fails because the token exchange fails ends the batch at
\* once: no later target is attempted and no further backend request, item or
\* apply, is issued for the batch.
C12_TokenFailureAbortsBatch ==
  \A k \in 1..Len(batch.calls) :
    batch.calls[k].out = "auth" =>
      /\ k = Len(batch.calls)
      /\ batch.applies = 0

\* C16: ensure_token fails whenever the token endpoint answers non-2xx or its
\* answer lacks access_token or a usable expires_in, and every such failure
\* leaves the cached token and expiry as they were.
C16_FailureLeavesCacheUnchanged ==
  LET l == tok.last IN
  (/\ l.op = "ensure_token" /\ l.calls = 1
   /\ \/ l.resp.kind = "http"
      \/ l.resp.kind = "ok" /\ (~l.resp.has_token \/ l.resp.exp_kind # "int")) =>
    /\ l.outcome = "failed"
    /\ tok.token = l.token_before
    /\ tok.exp = l.exp_before

\* C17: gql never returns when the body of the answer holds `errors`; on a 2xx
\* answer it raises an error carrying that list; a call that returned had a 2xx
\* answer without `errors`.
C17_ErrorsNeverReturned ==
  LET l == tok.last IN
  (l.op = "gql" /\ l.posted) =>
    /\ (l.answer.kind \in {"http", "ok"} /\ l.answer.has_errors) =>
         l.result.kind = "raised"
    /\ (l.answer.kind = "ok" /\ l.answer.has_errors) =>
         l.result.what = "errors" /\ l.result.payload = l.answer.errors
    /\ l.result.kind = "returned" =>
         l.answer.kind = "ok" /\ ~l.answer.has_errors /\ l.answer.has_data

C17_Witness ==
  /\ tok.last.op = "gql" /\ tok.last.posted
  /\ tok.last.answer.kind = "ok" /\ tok.last.answer.has_data
  /\ tok.last.answer.errors = <<"e1", "e2">>
  /\ tok.last.result = [kind |-> "raised", what |-> "errors",
                        payload |-> <<"e1", "e2">>]

\* C18: a token refreshed by a command is the session's token, and a command
\* that runs while the last refreshed token has more than 30 seconds left makes
\* no token exchange.
C18_RefreshReachesSession ==
  /\ sess.refreshed # NoToken =>
       sess.token = sess.refreshed.token /\ sess.exp = sess.refreshed.exp
  /\ (sess.last.op = "command" /\ sess.last.known # NoToken
      /\ sess.last.known.exp - sess.last.at > TokMargin) =>
       sess.last.calls = 0

\* C19: for numeric tokens and low-high range tokens parse_targets returns
\* exactly the numbers the tokens cover, in strictly ascending numeric order, no
\* number twice, in whatever spelling a number is given.
C19_SortedDuplicateFree ==
  LET
    \* The numbers the tokens of the input cover.
    PTCovered ==
      UNION {ToInt(pt.tokens[k].a)..ToInt(pt.tokens[k].b) : k \in 1..Len(pt.tokens)}
  IN
  (/\ pt.pc = "done"
   /\ \A k \in 1..Len(pt.tokens) : ToInt(pt.tokens[k].a) <= ToInt(pt.tokens[k].b)) =>
    /\ {ToInt(pt.targets[k]) : k \in 1..Len(pt.targets)} = PTCovered
    /\ \A k \in 1..(Len(pt.targets) - 1) :
         ToInt(pt.targets[k]) < ToInt(pt.targets[k + 1])

\* C20: for one range token a-b with a > b, parse_targets and _parse_range both
\* yield the numbers b..a (neither of them raises).
C20_DescendingRangeSameEverywhere ==
  (/\ pt.pc = "done" /\ pt.rpc = "done" /\ Len(pt.tokens) = 1
   /\ ToInt(pt.tokens[1].a) > ToInt(pt.tokens[1].b)) =>
    LET want == ToInt(pt.tokens[1].b)..ToInt(pt.tokens[1].a) IN
    /\ {ToInt(pt.targets[k]) : k \in 1..Len(pt.targets)} = want
    /\ {ToInt(pt.ranges[k]) : k \in 1..Len(pt.ranges)} = want

C23_RouteOnlyForKnownExtNewDid ==
  batch.pc # "idle" /\ batch.cmd = "add_inbound" =>
    /\ \A k \in 1..Len(batch.calls) :
         batch.calls[k].op = "create_inbound_route" =>
           LET e == batch.calls[k].ext IN
           /\ e \in batch.snapshot
           /\ PlainDid(e) \notin batch.dids0 /\ SimDid(e) \notin batch.dids0
           /\ \A j \in 1..(k - 1) :
                batch.calls[j] # [op |-> "create_inbound_route", ext |-> e, out |-> "ok"]
    /\ \A e \in BExts :
         Cardinality({k \in 1..Len(batch.calls) :
                        batch.calls[k] =
                          [op |-> "create_inbound_route", ext |-> e, out |-> "ok"]})
           + (IF SimDid(e) \in batch.dids0 THEN 1 ELSE 0) <= 1
    /\ pbx.twice = {}

\* C24: after any number of sequential runs of
\* create_outbound_route_with_ranges_via_ssh with one route name (a rerun after
\* a partial failure included), outbound_routes holds exactly one row of that
\* name, outbound_route_sequence exactly one row of its route_id, and every run
\* resolved the same route_id.
C24_OneRouteOneSequenceRow ==
  ssh.pc # "idle" =>
    \A n \in RouteNames :
      LET rows == {k \in 1..Len(ssh.db.routes) : ssh.db.routes[k].name = n}
          runs == {k \in 1..Len(ssh.log) :
                     ssh.log[k].name = n /\ ssh.log[k].rid # SqlNull} IN
      /\ Cardinality(rows) <= 1
      /\ runs # {} =>
           /\ Cardinality(rows) = 1
           /\ \A r \in rows :
                /\ Cardinality({k \in 1..Len(ssh.db.seqs) :
                                  ssh.db.seqs[k].route_id = ssh.db.routes[r].route_id}) = 1
                /\ \A k \in runs : ssh.log[k].rid = ssh.db.routes[r].route_id

\* Three runs for one name into tables that hold another route: the first is
\* cut after the row was inserted, the next two complete.
C24_Witness ==
  /\ ssh.pc = "ready" /\ ssh.out = "ok"
  /\ Len(ssh.log) = 3
  /\ ssh.log[1] = [name |-> "r1", cut |-> 1, rid |-> SqlNull]
  /\ ssh.log[2] = [name |-> "r1", cut |-> 3, rid |-> 2]
  /\ ssh.log[3] = [name |-> "r1", cut |-> 3, rid |-> 2]
  /\ Len(ssh.db.routes) = 2 /\ Len(ssh.db.seqs) = 2

\* C25: set_extension_chansip_secret_via_ssh rejects every secret that is empty
\* or has a character outside [A-Za-z0-9._-@] before any remote command: no
\* read, write or reload was sent and the stored secret is unchanged.
C25_BadSecretNoRemoteCommand ==
  /\ ssh.pc \notin {"idle", "call"}
  /\ ssh.fn = "set_extension_chansip_secret"
  /\ (ssh.a2 = <<>> \/ \E k \in 1..Len(ssh.a2) : ssh.a2[k] \notin SecretClass)
  => /\ ssh.pc = "raised" /\ ssh.ret.raised
     /\ ssh.cmds = <<>> /\ ssh.frags = <<>>
     /\ ssh.stored = ssh.stored0

\* A secret of one quote for a numeric extension was rejected.
C25_Witness ==
  /\ ssh.pc = "raised" /\ ssh.fn = "set_extension_chansip_secret"
  /\ ssh.a1 = <<"7">> /\ ssh.a2 = <<"'">>
  /\ ssh.cmds = <<>>

\* C26: _ssh_run reports failure whenever the remote command exits nonzero or
\* writes error output while producing no stdout, and returns stdout as success
\* whenever stdout is non-empty; a sequence of remote commands never goes past
\* a step that failed without output.
C26_SilentFailureReported ==
  ssh.pc \notin {"idle", "call"} /\ ssh.cmds # <<>> /\ ssh.last.conn =>
    /\ (ssh.last.exit # 0 \/ ssh.last.err # <<>>) /\ ssh.last.out = <<>>
         => ssh.ret.raised
    /\ ssh.last.out # <<>> => ~ssh.ret.raised /\ ssh.ret.out = ssh.last.out
    /\ ~ssh.silent

\* C27: every argument written into a remote shell command or an SQL literal
\* (endpoint name, route name, dial patterns, trunk names, extension, secret)
\* is escaped or checked against an allow-list first, so the text stays inside
\* the quotes it is written between.
C27_ArgumentsStayQuoted ==
  LET
    Kept(frag) ==
      IF frag.ctx = "sql" THEN SqlLiteralKept(frag.text) ELSE ShellQuotedKept(frag.text)
  IN
  ssh.pc # "idle" => \A k \in 1..Len(ssh.frags) : Kept(ssh.frags[k])

\* C28: when the device answers 401/403 under every credential encoding,
\* set_incoming_enabled and check_status report an authentication failure that
\* is told from a network failure, and set_incoming_enabled sends no POST.
C28_RejectedCredentialsReported ==
  LET g == goip[1] IN
  /\ (g.pc = "done" /\ g.slot \in Slots /\ g.accepted = {} /\ g.fails = 0) =>
       /\ g.posts = 0
       /\ ~g.result.ok /\ g.result.msg # "network"
  /\ (g.pc = "cs_done" /\ g.accepted = {} /\ g.fails = 0) =>
       g.result.status = "unauthorized"

\* C29: if exactly one network attempt of set_incoming_enabled (of the form
\* GET, the POST or the verification GET) fails with a reset or a timeout and
\* the later ones succeed, it is sent again and the operation ends with the
\* result and the device state of a call without failure, for any credentials;
\* and every operation ends with a result.
C29_OneFailureRetried ==
  /\ [](LET g == goip[1] IN
        (g.pc = "done" /\ g.slot \in Slots /\ g.fails <= 1 /\ ~g.odd) =>
          IF g.accepted = {}
          THEN ~g.result.ok /\ g.posts = 0 /\ dev = g.dev0
          ELSE /\ g.result = [ok |-> TRUE, msg |-> "done"]
               /\ g.posts = 1
               /\ dev = DevApply(g.dev0, form_data(Page(g.dev0), g.slot, g.enabled)))
  /\ [](goip[1].pc \in {"get", "post", "verify"} => <>(goip[1].pc = "done"))

\* A call under credentials of one encoding ended well after one failed attempt.
C29_Witness ==
  /\ goip[1].pc = "done" /\ goip[1].fails = 1 /\ goip[1].nauth = 1
  /\ goip[1].result.ok /\ goip[1].posts = 1
  /\ dev # goip[1].dev0

\* C30: set_incoming_enabled(s, e) called twice in a row on a responsive device
\* leaves, after the second call, the flag and the alias of every slot as they
\* were after the first, and both calls return the same outcome; for e true and
\* false and any initial alias of slot s.
C30_SecondCallSameStateAndOutcome ==
  LET g == goip[1] IN
  (g.pc = "done" /\ g.prev.set) =>
    /\ \A j \in Slots :
         /\ dev.slot[j].fw = g.prev.dev.slot[j].fw
         /\ dev.slot[j].alias = g.prev.dev.slot[j].alias
    /\ g.result = g.prev.result

\* Enabling twice a line that had its own alias: done both times, the alias
\* kept.
C30_Witness ==
  LET g == goip[1] IN
  /\ g.pc = "done" /\ g.prev.set /\ g.enabled /\ g.slot = 1
  /\ g.prev.result = [ok |-> TRUE, msg |-> "done"] /\ g.result.ok
  /\ dev.slot[1].alias = <<"custom">> /\ dev.slot[1].fw = "on"

\* C31: two set_incoming_enabled calls on different lines of one device, both
\* reporting success: when one ran after the other had returned, both lines
\* are in the requested state; with interleaved steps (see the witness) one of
\* the lines can be left in another state.
C31_SerialCallsKeepBothSlots ==
  LET a == goip[1]
      b == goip[2] IN
  (/\ a.pc = "done" /\ b.pc = "done" /\ a.result.ok /\ b.result.ok
   /\ ~a.overlap /\ ~b.overlap) =>
    /\ dev.slot[a.slot].fw = (IF a.enabled THEN "on" ELSE "off")
    /\ dev.slot[b.slot].fw = (IF b.enabled THEN "on" ELSE "off")

\* Lost update: the calls overlapped, both reported success, and the line of
\* the first caller is not enabled as it asked.
C31_Witness ==
  LET a == goip[1]
      b == goip[2] IN
  /\ a.pc = "done" /\ b.pc = "done" /\ a.result.ok /\ b.result.ok
  /\ a.overlap \/ b.overlap
  /\ a.slot # b.slot /\ a.enabled
  /\ dev.slot[a.slot].fw = "off"

\* C32: after /add_inbound and /del_inbound commands in which every backend
\* and device call succeeded (GOIP connected), a line s of the gateway is
\* enabled if and only if some extension that maps to s (n % 100 = s) has an
\* inbound route.
C32_SlotEnabledIffRouted ==
  (batch.pc = "done" /\ batch.clean /\ CallsSucceeded(batch)) =>
    \A s \in Slots :
      dev.slot[s].fw = "on" <=>
        \E e \in pbx.exts : ext_to_slot(e) = s /\ HasRoute(pbx.routes, e)

\* C33: every number /create allocates for equipment code c lies in the range
\* of that code, c*100+1 .. c*100+100, for every count and every set of
\* existing extensions.
C33_AllocatedInsideEquipmentRange ==
  (batch.cmd = "create" /\ batch.pc # "start") =>
    LET start == equip_start(BExtLow \div 100) IN
    \A k \in 1..Len(batch.todo) :
      start <= batch.todo[k] /\ batch.todo[k] <= start + EqLast

\* C34: in create and add, the call that follows a returned create_one is
\* set_ext_password for the same extension, before create_one of any other
\* extension, and an extension is in the created list only if its create_one and
\* its set_ext_password both returned.
C34_PasswordRightAfterCreate ==
  batch.cmd \in {"create", "add"} =>
    /\ \A k \in 1..Len(batch.calls) :
         (batch.calls[k].op = "create_one" /\ batch.calls[k].out = "ok")
           => /\ k < Len(batch.calls)
              /\ batch.calls[k + 1].op = "set_ext_password"
              /\ batch.calls[k + 1].ext = batch.calls[k].ext
    /\ \A j \in 1..Len(batch.ok) :
         \E k \in 1..(Len(batch.calls) - 1) :
           /\ batch.calls[k] = [op |-> "create_one", ext |-> batch.ok[j], out |-> "ok"]
           /\ batch.calls[k + 1] =
                [op |-> "set_ext_password", ext |-> batch.ok[j], out |-> "ok"]

\* A run that created and counted one extension, then created a second one whose
\* password call raised: the second one exists but is not counted.
C34_Witness ==
  /\ batch.cmd \in {"create", "add"}
  /\ Len(batch.ok) = 1
  /\ \E k \in 1..Len(batch.calls) :
       /\ batch.calls[k].op = "set_ext_password"
       /\ batch.calls[k].out = "error"
       /\ batch.calls[k].ext \in pbx.exts
       /\ batch.calls[k].ext \notin Range(batch.ok)

\* C35: in add_inbound and del_inbound the GOIP step begins only after the last
\* item of the route loop and after the apply call, and toggles only lines of
\* items in the done list; whether it has no GOIP session or a toggle fails, the
\* done, skipped and failed lists and the routes of the PBX are what they were
\* when the step began, and its outcome is kept apart from the route summary.
C35_GoipStepAfterRoutesAndApart ==
  (batch.cmd \in {"add_inbound", "del_inbound"} /\ batch.goip # "none") =>
    /\ batch.goip_at.i = Len(batch.todo)
    /\ batch.goip_at.applies = 1
    /\ batch.applies = 1
    /\ batch.ok # <<>>
    /\ batch.goip_done \cup batch.goip_errs \subseteq SlotsOf(batch.ok)
    /\ batch.goip_at.ok = batch.ok
    /\ batch.goip_at.skipped = batch.skipped
    /\ batch.goip_at.failed = batch.failed
    /\ batch.goip_at.routes = pbx.routes
    /\ batch.summary
    /\ batch.error = "none"
    /\ batch.goip \in {"nosession", "noslots", "ran"}
    /\ (batch.goip # "ran") => (batch.goip_done = {} /\ batch.goip_errs = {})

\* /del_inbound deleted a route, the toggle of its line failed, and the route
\* stays deleted and its item stays in the done list.
C35_Witness ==
  /\ batch.cmd = "del_inbound"
  /\ batch.goip = "ran"
  /\ batch.goip_errs # {}
  /\ \E e \in Range(batch.ok) :
       /\ ext_to_slot(e) \in batch.goip_errs
       /\ ~HasRoute(pbx.routes, e)
       /\ HasRoute(batch.dids, e)

C37_PostChangesOnlyTargetSlot ==
  \A c \in GoipCallers :
    (goip[c].pc # "idle" /\ goip[c].posts > 0) =>
      /\ dev.user_noinput_t = goip[c].dev0.user_noinput_t
      /\ dev.cid_fw_mode = goip[c].dev0.cid_fw_mode
      /\ \A j \in Slots \ {goip[c].slot} : dev.slot[j] = goip[c].dev0.slot[j]
      /\ [dev.slot[goip[c].slot] EXCEPT !.fw = "off", !.alias = <<>>]
           = [goip[c].dev0.slot[goip[c].slot] EXCEPT !.fw = "off", !.alias = <<>>]

\* C38: after any reruns of create_outbound_route_with_ranges_via_ssh with the
\* same arguments, outbound_route_patterns and outbound_route_trunks hold no row
\* twice: the rows of the route are those of its first run.
C38_NoDuplicateChildRows ==
  ssh.pc \in {"ready", "patterns"} =>
    /\ \A j \in 1..Len(ssh.db.patterns), k \in 1..Len(ssh.db.patterns) :
         ssh.db.patterns[j] = ssh.db.patterns[k] => j = k
    /\ \A j \in 1..Len(ssh.db.trunks), k \in 1..Len(ssh.db.trunks) :
         ssh.db.trunks[j] = ssh.db.trunks[k] => j = k

\* C39: when connect, by arguments or by preset, replied with the connection
\* error, the session store of the chat and its connected flag are what they
\* were when the command arrived.
C39_FailedConnectLeavesSession ==
  (/\ sess.pc = "ready"
   /\ sess.last.op \in {"connect", "preset"}
   /\ sess.last.reply = "connect_error") =>
    /\ sess.connected = sess.last.before.connected
    /\ sess.token = sess.last.before.token
    /\ sess.exp = sess.last.before.exp

====
